---------------------------- MODULE Spec2Model ----------------------------
(***************************************************************************)
(* A model of fmu-settings: the ConfigManager (dot-notation get / set /    *)
(* update / reset over a validated Config stored as .fmu/config.json) and  *)
(* the CacheManager (bounded revision snapshots under .fmu/cache).         *)
(***************************************************************************)
EXTENDS Integers, Sequences, FiniteSets, TLC

(***************************************************************************)
(* Python values.  Every value is a record [t, v]: t is the Python type,   *)
(* v the payload.  A str whose text is the ISO-8601 rendering of the       *)
(* instant n is written [t |-> "isostr", v |-> n]; it is a str to Python   *)
(* and it is what an aware datetime becomes in JSON.  A dict is a function *)
(* from key strings to values.  "attr" is a non-field attribute of the     *)
(* model object (a bound method such as Config.model_dump).                *)
(***************************************************************************)
Str(s) == [t |-> "str", v |-> s]
IsoStr(n) == [t |-> "isostr", v |-> n]
Int_(n) == [t |-> "int", v |-> n]
Datetime(n) == [t |-> "datetime", v |-> n]
Dict(f) == [t |-> "dict", v |-> f]
Attr(s) == [t |-> "attr", v |-> s]
None == [t |-> "none", v |-> 0]
EmptyDict == Dict([k \in {} |-> None])

IsDict(x) == x.t = "dict"
IsStr(x) == x.t \in {"str", "isostr"}

\* d[k] = x on a dict d (assignment by key).
DictSet(d, k, x) ==
    Dict([kk \in (DOMAIN d.v) \cup {k} |-> IF kk = k THEN x ELSE d.v[kk]])

\* A key is held as the list key.split(".") yields: "a.b.c" is <<"a","b","c">>,
\* and  "." in key  is  Len(parts) > 1.
HasDot(parts) == Len(parts) > 1

(***************************************************************************)
(* ConfigManager._get_dot_notation_key                                     *)
(***************************************************************************)
RECURSIVE GetDotWalk(_, _, _)
GetDotWalk(value, parts, default) ==
    IF parts = <<>>
    THEN value
    ELSE IF IsDict(value) /\ Head(parts) \in DOMAIN value.v
         THEN GetDotWalk(value.v[Head(parts)], Tail(parts), default)
         ELSE default

\* A faulty variant: the walk does not test isinstance(value, dict) on the way and
\* hands back whatever it reached when a segment cannot be followed.
GetDotNoDefault(config_dict, parts, default) ==
    LET RECURSIVE W(_, _)
        W(value, ps) ==
            IF ps = <<>> THEN value
            ELSE IF IsDict(value) /\ Head(ps) \in DOMAIN value.v
                 THEN W(value.v[Head(ps)], Tail(ps))
                 ELSE IF IsDict(value) THEN default ELSE value
    IN W(config_dict, parts)

GetDotNotationKey(config_dict, parts, default) ==
    GetDotWalk(config_dict, parts, default)

(***************************************************************************)
(* ConfigManager._set_dot_notation_key                                     *)
(***************************************************************************)
\* A faulty variant: every intermediate is replaced by a new mapping, also one
\* that already is a mapping, so the entries beside the path are dropped.
RECURSIVE SetDotFreshIntermediates(_, _, _)
SetDotFreshIntermediates(target, parts, value) ==
    IF Len(parts) = 1
    THEN DictSet(target, parts[1], value)
    ELSE DictSet(target, Head(parts),
                 SetDotFreshIntermediates(EmptyDict, Tail(parts), value))

RECURSIVE SetDotNotationKey(_, _, _)
SetDotNotationKey(target, parts, value) ==
    IF Len(parts) = 1
    THEN DictSet(target, parts[1], value)
    ELSE LET part == Head(parts)
             child == IF part \notin DOMAIN target.v \/ ~IsDict(target.v[part])
                      THEN EmptyDict
                      ELSE target.v[part]
         IN DictSet(target, part, SetDotNotationKey(child, Tail(parts), value))


(***************************************************************************)
(* The Config schema: version (VersionStr), created_at (AwareDatetime),    *)
(* created_by (str).  A validated Config is [t |-> "Config", v |-> fields].*)
(***************************************************************************)
Fields == {"version", "created_at", "created_by"}

\* Attributes of a Config object that are not fields (methods of BaseModel):
\* hasattr(config, name) is true for them as well.
ModelAttrs == {"model_dump"}

PackageVersion == "1.0.0"
OSUser == "user"

\* VersionStr is a pattern that pydantic searches for, unanchored: a str that
\* holds a digit matches.  The strs of the model that hold a digit:
DigitStrings == {"1.0.0", "200.0.0"}

ValidVersion(x) == (x.t = "str" /\ x.v \in DigitStrings) \/ x.t = "isostr"
ValidCreatedBy(x) == IsStr(x)
\* AwareDatetime takes an aware datetime, an ISO-8601 str or a number (a unix
\* timestamp) and yields the datetime.
ValidCreatedAt(x) == x.t \in {"datetime", "isostr", "int"}
\* A faulty variant: only the date is kept, the time of day is dropped.
CoerceDatetimeDateOnly(x) == Datetime(0)

CoerceDatetime(x) == Datetime(x.v)

ValidationError == [t |-> "ValidationError", v |-> 0]
IsConfig(x) == x.t = "Config"

\* Config.model_validate(config_dict): fields are checked and coerced, keys
\* that are not fields are ignored.
ModelValidate(config_dict) ==
    IF /\ Fields \subseteq DOMAIN config_dict.v
       /\ ValidVersion(config_dict.v["version"])
       /\ ValidCreatedAt(config_dict.v["created_at"])
       /\ ValidCreatedBy(config_dict.v["created_by"])
    THEN [t |-> "Config",
          v |-> [version |-> config_dict.v["version"],
                 created_at |-> CoerceDatetime(config_dict.v["created_at"]),
                 created_by |-> config_dict.v["created_by"]]]
    ELSE ValidationError

\* config.model_dump(): a fresh dict of the fields.
ModelDump(config) == Dict(config.v)

\* A faulty variant: created_at is a fixed time, not the time of the call.
DefaultConfigEpoch(clock) ==
    [t |-> "Config",
     v |-> [version |-> Str(PackageVersion),
            created_at |-> Datetime(0),
            created_by |-> Str(OSUser)]]

\* Config(version=__version__, created_at=datetime.now(UTC),
\*        created_by=getpass.getuser())
DefaultConfig(clock) ==
    [t |-> "Config",
     v |-> [version |-> Str(PackageVersion),
            created_at |-> Datetime(clock),
            created_by |-> Str(OSUser)]]

(***************************************************************************)
(* The JSON text of a Config and its parse.  In JSON a datetime is its     *)
(* ISO-8601 str.  A file is NoFile, a JSON text [t |-> "json", v |-> obj]  *)
(* or a text that is not JSON.                                             *)
(***************************************************************************)
NoFile == [t |-> "nofile", v |-> 0]
JsonOf(x) == IF x.t = "datetime" THEN IsoStr(x.v) ELSE x
ModelDumpJson(config) ==
    [t |-> "json", v |-> [k \in DOMAIN config.v |-> JsonOf(config.v[k])]]
JsonLoads(text) == Dict(text.v)

(***************************************************************************)
(* The .fmu/cache tree.  fs is [root, tag, tagWrites, dirs, snaps]: whether *)
(* the cache root directory exists, the content of CACHEDIR.TAG (or        *)
(* NoFile), how many times it has been written, the                        *)
(* stems whose snapshot directory exists, and the snapshot files, each     *)
(* [stem, name, content].  A snapshot name is [ts, token, suffix], the     *)
(* parts of "<timestamp>-<token><suffix>"; the timestamp has fixed width,  *)
(* so names sort as strings the way (ts, token, suffix) sort.  A resource  *)
(* path is [stem, suffix].                                                 *)
(***************************************************************************)
CachedirTagContent ==
    [t |-> "text", v |-> "Signature: 8a477f597d28d172789f06886806bc55"]

ConfigPath == [stem |-> "config", suffix |-> ".json"]
ReadmePath == [stem |-> "README", suffix |-> ""]

\* cache_dir / snapshot_name
SnapshotPath(stem, name) == [t |-> "path", v |-> [stem |-> stem, name |-> name]]

FilesIn(fs, stem) == {f \in fs.snaps : f.stem = stem}

\* path.name order of two snapshot names of one resource: the timestamp,
\* then the token (the suffix is the same for all of them).
NameLess(a, b) ==
    \/ a.ts < b.ts
    \/ a.ts = b.ts /\ a.token < b.token

\* revisions.sort(key=lambda path: path.name)
RECURSIVE SortByName(_)
SortByName(files) ==
    IF files = {} THEN <<>>
    ELSE LET first == CHOOSE f \in files :
                          \A g \in files \ {f} : NameLess(f.name, g.name)
         IN <<first>> \o SortByName(files \ {first})

\* FMUDirectory.write_text_file below the cache root: parents are made, a file
\* of the same name is overwritten.
WriteSnapshot(fs, stem, name, content) ==
    [fs EXCEPT !.root = TRUE,
               !.dirs = @ \cup {stem},
               !.snaps = {f \in @ : ~(f.stem = stem /\ f.name = name)}
                          \cup {[stem |-> stem, name |-> name, content |-> content]}]

\* A faulty variant: the tag is written on every call, existing or not.
EnsureCachedirTagRewrites(fs) ==
    [fs EXCEPT !.tag = CachedirTagContent, !.tagWrites = @ + 1]

\* A faulty variant: the tag is never written.
EnsureCachedirTagSkips(fs) == fs

\* CacheManager._ensure_cachedir_tag
EnsureCachedirTag(fs) ==
    IF fs.tag # NoFile THEN fs
    ELSE [fs EXCEPT !.tag = CachedirTagContent, !.tagWrites = @ + 1]

\* CacheManager._cache_root_path(create=True)
CacheRootPath(fs) == EnsureCachedirTag([fs EXCEPT !.root = TRUE])

\* CacheManager._ensure_config_cache_dir
EnsureConfigCacheDir(fs, path) ==
    [CacheRootPath(fs) EXCEPT !.dirs = @ \cup {path.stem}]

\* CacheManager._snapshot_filename: the clock reading, the uuid4 token and
\* the resource's suffix (".txt" when it has none).
SnapshotFilename(path, ts, token) ==
    [ts |-> ts, token |-> token,
     suffix |-> IF path.suffix = "" THEN ".txt" ELSE path.suffix]

\* A faulty variant: trimming keeps one revision too many.
TrimOffByOne(fs, stem, max_revisions) ==
    LET revisions == FilesIn(fs, stem)
        sorted == SortByName(revisions)
        excess == Cardinality(revisions) - max_revisions - 1
    IN IF Cardinality(revisions) <= max_revisions + 1 THEN fs
       ELSE [fs EXCEPT !.snaps = @ \ {sorted[i] : i \in 1..excess}]

\* A faulty variant: trimming deletes the newest names instead of the oldest.
TrimNewest(fs, stem, max_revisions) ==
    LET revisions == FilesIn(fs, stem)
        sorted == SortByName(revisions)
        n == Cardinality(revisions)
    IN IF n <= max_revisions THEN fs
       ELSE [fs EXCEPT !.snaps = @ \ {sorted[i] : i \in (max_revisions+1)..n}]

\* CacheManager._trim
Trim(fs, stem, max_revisions) ==
    LET revisions == FilesIn(fs, stem)
        sorted == SortByName(revisions)
        excess == Cardinality(revisions) - max_revisions
    IN IF Cardinality(revisions) <= max_revisions THEN fs
       ELSE [fs EXCEPT !.snaps = @ \ {sorted[i] : i \in 1..excess}]

\* A faulty variant: no early return when caching is disabled.
StoreRevisionNoGuard(fs, max_revisions, path, content, ts, token) ==
    LET snapshot_name == SnapshotFilename(path, ts, token)
        written == WriteSnapshot(EnsureConfigCacheDir(fs, path),
                                 path.stem, snapshot_name, content)
    IN [fs |-> Trim(written, path.stem, max_revisions),
        ret |-> SnapshotPath(path.stem, snapshot_name)]

\* A faulty variant: every resource's snapshots go to the directory "config".
StoreRevisionOneDir(fs, max_revisions, path, content, ts, token) ==
    IF max_revisions = 0 THEN [fs |-> fs, ret |-> None]
    ELSE LET snapshot_name == SnapshotFilename(path, ts, token)
             written == WriteSnapshot(EnsureConfigCacheDir(fs, path),
                                      "config", snapshot_name, content)
         IN [fs |-> Trim(written, "config", max_revisions),
             ret |-> SnapshotPath("config", snapshot_name)]

\* A faulty variant: the snapshot is not written.
StoreRevisionNoWrite(fs, max_revisions, path, content, ts, token) ==
    IF max_revisions = 0 THEN [fs |-> fs, ret |-> None]
    ELSE [fs |-> Trim(EnsureConfigCacheDir(fs, path), path.stem, max_revisions),
          ret |-> SnapshotPath(path.stem, SnapshotFilename(path, ts, token))]

\* CacheManager.store_revision: the new tree and the returned path (None
\* when caching is disabled).
StoreRevision(fs, max_revisions, path, content, ts, token) ==
    IF max_revisions = 0 THEN [fs |-> fs, ret |-> None]
    ELSE LET snapshot_name == SnapshotFilename(path, ts, token)
             written == WriteSnapshot(EnsureConfigCacheDir(fs, path),
                                      path.stem, snapshot_name, content)
         IN [fs |-> Trim(written, path.stem, max_revisions),
             ret |-> SnapshotPath(path.stem, snapshot_name)]

\* A faulty variant: the files are listed newest name first.
ListRevisionsReversed(fs, path) ==
    IF path.stem \notin fs.dirs THEN <<>>
    ELSE LET sorted == SortByName(FilesIn(fs, path.stem))
         IN [i \in 1..Len(sorted) |-> sorted[Len(sorted) + 1 - i]]

\* CacheManager.list_revisions: the snapshot files of the resource, oldest
\* name first; empty when its directory does not exist.
ListRevisions(fs, path) ==
    IF path.stem \notin fs.dirs THEN <<>>
    ELSE SortByName(FilesIn(fs, path.stem))

(***************************************************************************)
(* The resource manager's load: the cached value unless forced or empty,   *)
(* else the file read, parsed and validated.  The result is what was       *)
(* raised ("" for nothing), the value returned, the cache afterwards and   *)
(* whether the file was read.                                              *)
(***************************************************************************)
\* A faulty variant: the cached value is never used, the file is always read.
LoadResultAlwaysReads(file_, cache_, force) ==
    IF file_ = NoFile
    THEN [raised |-> "FileNotFoundError", value |-> None, cache |-> cache_,
          read |-> FALSE]
    ELSE IF file_.t # "json"
    THEN [raised |-> "ValueError", value |-> None, cache |-> cache_,
          read |-> FALSE]
    ELSE LET model == ModelValidate(JsonLoads(file_))
         IN IF model = ValidationError
            THEN [raised |-> "ValidationError", value |-> None,
                  cache |-> cache_, read |-> FALSE]
            ELSE [raised |-> "", value |-> model, cache |-> model,
                  read |-> TRUE]

LoadResult(file_, cache_, force) ==
    IF cache_ # None /\ ~force
    THEN [raised |-> "", value |-> cache_, cache |-> cache_, read |-> FALSE]
    ELSE IF file_ = NoFile
    THEN [raised |-> "FileNotFoundError", value |-> None, cache |-> cache_,
          read |-> FALSE]
    ELSE IF file_.t # "json"
    THEN [raised |-> "ValueError", value |-> None, cache |-> cache_,
          read |-> FALSE]
    ELSE LET model == ModelValidate(JsonLoads(file_))
         IN IF model = ValidationError
            THEN [raised |-> "ValidationError", value |-> None,
                  cache |-> cache_, read |-> FALSE]
            ELSE [raised |-> "", value |-> model, cache |-> model,
                  read |-> TRUE]

\* hasattr(config, key) / getattr(config, key)
HasAttr(config, key) == key \in Fields \cup ModelAttrs
GetAttr(config, key) == IF key \in Fields THEN config.v[key] ELSE Attr(key)

\* The body of ConfigManager.get once the config is loaded.
GetValue(config, parts, default) ==
    IF HasDot(parts)
    THEN GetDotNotationKey(ModelDump(config), parts, default)
    ELSE IF HasAttr(config, parts[1])
         THEN GetAttr(config, parts[1])
         ELSE LET config_dict == ModelDump(config)
              IN IF parts[1] \in DOMAIN config_dict.v
                 THEN config_dict.v[parts[1]]
                 ELSE default

\* A faulty variant: a flat key is not assigned.
SetMutateDottedOnly(config, parts, value) ==
    IF HasDot(parts)
    THEN SetDotNotationKey(ModelDump(config), parts, value)
    ELSE ModelDump(config)

\* The dict ConfigManager.set validates: the dump with the key assigned.
SetMutate(config, parts, value) ==
    IF HasDot(parts)
    THEN SetDotNotationKey(ModelDump(config), parts, value)
    ELSE DictSet(ModelDump(config), parts[1], value)

\* ConfigManager.update up to the save: the flat keys assigned first, then
\* one pass over all items that assigns each dotted key and validates after
\* every item.  With no item updated_config is never bound.  The result is
\* what was raised and the last validated Config.
RECURSIVE FlatUpdate(_, _)
FlatUpdate(config_dict, updates) ==
    IF updates = <<>> THEN config_dict
    ELSE LET item == Head(updates)
         IN FlatUpdate(IF HasDot(item.key) THEN config_dict
                       ELSE DictSet(config_dict, item.key[1], item.value),
                       Tail(updates))

RECURSIVE UpdateLoop(_, _, _)
UpdateLoop(config_dict, updates, updated_config) ==
    IF updates = <<>>
    THEN IF updated_config = None
         THEN [raised |-> "UnboundLocalError", config |-> None]
         ELSE [raised |-> "", config |-> updated_config]
    ELSE LET item == Head(updates)
             d == IF HasDot(item.key)
                  THEN SetDotNotationKey(config_dict, item.key, item.value)
                  ELSE config_dict
             validated == ModelValidate(d)
         IN IF validated = ValidationError
            THEN [raised |-> "ValidationError", config |-> None]
            ELSE UpdateLoop(d, Tail(updates), validated)

\* A faulty variant: the updates that would not validate on their own are ignored
\* and the others are applied.
UpdateResultValidOnly(config, updates) ==
    LET valid == SelectSeq(updates, LAMBDA item :
                     ModelValidate(SetMutate(config, item.key, item.value))
                        # ValidationError)
    IN UpdateLoop(FlatUpdate(ModelDump(config), valid), valid, None)

UpdateResult(config, updates) ==
    UpdateLoop(FlatUpdate(ModelDump(config), updates), updates, None)

(***************************************************************************)
(* Bounds and inputs.                                                      *)
(***************************************************************************)
MaxClock == 1       \* readings of datetime.now(UTC): 0..MaxClock
MaxRevs == 1        \* max_revisions ranges over 0..MaxRevs
MaxUpdates == 2     \* items in one update() mapping

\* Two values of uuid4().hex[:8].
Tokens == {0, 1}

Keys == { <<"version">>, <<"created_by">>, <<"created_at">>, <<"notreal">>,
          <<"model_dump">>, <<"version", "x">>, <<"a", "b", "c">> }
Values == { Str("bob"), Int_(0), EmptyDict }
Defaults == { Str("foo") }

UpdateKeys == { <<"version">>, <<"created_by">>, <<"not", "real">> }
UpdateValues == { Str("bob") }
UpdateItems == [key : UpdateKeys, value : UpdateValues]
\* Mappings of at most MaxUpdates items in insertion order, keys distinct.
UpdateMappings ==
    UNION { { u \in [1..n -> UpdateItems] :
                \A i, j \in 1..n : i # j => u[i].key # u[j].key }
            : n \in 0..MaxUpdates }

VARIABLES
    file,           \* the content of .fmu/config.json, or NoFile
    cache,          \* ConfigManager._cache: None or a Config
    lastGood,       \* the value last read from disk or last saved
    pc,             \* where the manager is: "idle" or inside save
    pending,        \* the Config being saved
    sv,             \* the save in progress (or last done): what it started from
    max_revisions,  \* CacheManager.max_revisions
    fs,             \* the .fmu/cache tree and the files of .fmu/logs
    now,            \* the clock
    op,             \* the last operation called and how it ended
    arg,            \* the arguments of a helper called directly
    res             \* its result; the frames of concurrent calls; the base
                    \* directory of an initialization; the log managers' caches

vars == <<file, cache, lastGood, pc, pending, sv, max_revisions, fs, now, op,
          arg, res>>

\* The files of .fmu/logs, by stem; none exists in an empty tree.
LogFileNames == {"userlog", "eventlog"}
NoLogs == [n \in LogFileNames |-> NoFile]
EmptyFs == [root |-> FALSE, tag |-> NoFile, tagWrites |-> 0, dirs |-> {},
            snaps |-> {}, logs |-> NoLogs]
NoSave == [preFile |-> NoFile, preCache |-> None, ret |-> None]
\* The arguments of the last call as recorded in op.value: the mapping given
\* to update, and the path and content given to store_revision together with
\* the number of revisions the resource had when the call began.
Updates(updates) == [t |-> "updates", v |-> updates]
Stored(path, content, before) ==
    [t |-> "stored",
     v |-> [path |-> path, content |-> content, before |-> before]]
\* What a load records in op.value: whether it read the file, and the model
\* that the call before it saved (None when that call was not a save).
LoadInfo(read, saved) ==
    [t |-> "load", v |-> [read |-> read, saved |-> saved]]
Op(name, key, value, raised, ret, done) ==
    [name |-> name, key |-> key, value |-> value, raised |-> raised,
     ret |-> ret, done |-> done]

\* The messages of the errors the manager raises: the FileNotFoundError of a
\* missing resource file names the manager class, the path and what was being
\* done; the ValueError of a failed validation names the manager class and
\* the key and value (or the updates) that were given.
ManagerClass == "ConfigManager"
NotFoundMessage(cls, path, doing) ==
    [t |-> "Resource file not found",
     v |-> [cls |-> cls, path |-> path, doing |-> doing]]
InvalidValueMessage(cls, key, value) ==
    [t |-> "Invalid value set",
     v |-> [cls |-> cls, key |-> key, value |-> value]]
\* A faulty variant: every error leaves as ValueError.
ReraisedAllAsValueError(raised) == "ValueError"

\* A faulty variant: the ValidationError is not caught.
ReraisedRaw(raised) == raised

\* What leaves set, update and get when load has raised: FileNotFoundError is
\* raised again with the manager's message, a ValidationError leaves set and
\* update as ValueError, anything else passes through.
Reraised(raised) == IF raised = "ValidationError" THEN "ValueError" ELSE raised
ReraisedMessage(raised, doing, key, value) ==
    IF raised = "FileNotFoundError"
    THEN NotFoundMessage(ManagerClass, ConfigPath, doing)
    ELSE IF raised = "ValidationError"
    THEN InvalidValueMessage(ManagerClass, key, value)
    ELSE None

\* CacheManager.__init__
ClampRevisions(n) == IF n < 0 THEN 0 ELSE n

Init ==
    /\ file \in {NoFile, ModelDumpJson(DefaultConfig(0))}
    /\ cache = None
    /\ lastGood = None
    /\ pc = "idle"
    /\ pending = None
    /\ sv = NoSave
    /\ max_revisions \in {ClampRevisions(n) : n \in -1..MaxRevs}
    /\ fs = EmptyFs
    /\ now = 0
    /\ op = Op("init", <<>>, None, "", None, TRUE)
    /\ arg = None
    /\ res = None

\* The clock advances.
Tick ==
    /\ pc = "idle"
    /\ now < MaxClock
    /\ now' = now + 1
    /\ op' = Op("tick", <<>>, None, "", None, TRUE)
    /\ sv' = NoSave
    /\ UNCHANGED <<file, cache, lastGood, pc, pending, max_revisions, fs,
                   arg, res>>

\* A CacheManager is constructed on the directory (a new session, or a new
\* retention limit).
CacheManagerInit(n) ==
    /\ pc = "idle"
    /\ max_revisions' = ClampRevisions(n)
    /\ op' = Op("cache_init", <<>>, Int_(n), "", None, TRUE)
    /\ sv' = NoSave
    /\ UNCHANGED <<file, cache, lastGood, pc, pending, fs, now, arg, res>>

\* load(force)
Load(force) ==
    /\ pc = "idle"
    /\ LET ld == LoadResult(file, cache, force)
       IN /\ cache' = ld.cache
          /\ lastGood' = IF ld.read THEN ld.value ELSE lastGood
          /\ op' = Op("load", IF force THEN <<"force">> ELSE <<>>,
                      LoadInfo(ld.read, IF op.name = "save" /\ op.done
                                        THEN op.value ELSE None),
                      ld.raised,
                      IF ld.raised = "FileNotFoundError"
                      THEN NotFoundMessage(ManagerClass, ConfigPath, "")
                      ELSE IF ld.raised = "" THEN ld.value ELSE None, TRUE)
    /\ sv' = NoSave
    /\ UNCHANGED <<file, pc, pending, max_revisions, fs, now, arg, res>>

\* ConfigManager.get(key, default)
Get(key, default) ==
    /\ pc = "idle"
    /\ LET ld == LoadResult(file, cache, FALSE)
       IN /\ cache' = ld.cache
          /\ lastGood' = IF ld.read THEN ld.value ELSE lastGood
          /\ op' = IF ld.raised # ""
                   THEN Op("get", key, default, ld.raised,
                           IF ld.raised = "FileNotFoundError"
                           THEN NotFoundMessage(ManagerClass, ConfigPath,
                                                "getting key")
                           ELSE None, TRUE)
                   ELSE Op("get", key, default, "",
                           GetValue(ld.value, key, default), TRUE)
    /\ sv' = NoSave
    /\ UNCHANGED <<file, pc, pending, max_revisions, fs, now, arg, res>>

\* save(model) begins: the steps SaveSnapshot, SaveWrite, SaveCache follow.
BeginSave(model, cache_) ==
    /\ pc' = "save_snapshot"
    /\ pending' = model
    /\ sv' = [preFile |-> file, preCache |-> cache_, ret |-> None]

\* A faulty variant: a failed validation leaves the mutated dict in the cache.
SetFailedCacheTorn(loaded, config_dict) == config_dict

\* A faulty variant: a failed validation drops the cached value.
SetFailedCacheCleared(loaded, config_dict) == None

\* What set leaves in the cache when validation fails: the except branch
\* raises ValueError and touches nothing, the mutated dict is discarded.
SetFailedCache(loaded, config_dict) == loaded

\* ConfigManager.set(key, value)
Set(key, value) ==
    /\ pc = "idle"
    /\ LET ld == LoadResult(file, cache, FALSE)
           updated == IF ld.raised = ""
                      THEN ModelValidate(SetMutate(ld.value, key, value))
                      ELSE None
       IN /\ lastGood' = IF ld.read THEN ld.value ELSE lastGood
          /\ IF ld.raised # ""
             THEN \* FileNotFoundError is raised again with the path; a
                  \* ValidationError of the file leaves as ValueError
                  /\ op' = Op("set", key, value, Reraised(ld.raised),
                              ReraisedMessage(ld.raised, "setting key",
                                              key, value), TRUE)
                  /\ cache' = ld.cache
                  /\ sv' = NoSave
                  /\ UNCHANGED <<pc, pending>>
             ELSE IF updated = ValidationError
             THEN /\ op' = Op("set", key, value,
                              Reraised("ValidationError"),
                              ReraisedMessage("ValidationError",
                                              "setting key", key, value),
                              TRUE)
                  /\ cache' = SetFailedCache(ld.cache,
                                             SetMutate(ld.value, key, value))
                  /\ sv' = NoSave
                  /\ UNCHANGED <<pc, pending>>
             ELSE /\ op' = Op("set", key, value, "", None, FALSE)
                  /\ cache' = ld.cache
                  /\ BeginSave(updated, ld.cache)
    /\ UNCHANGED <<file, max_revisions, fs, now, arg, res>>

\* ConfigManager.update(updates)
Update(updates) ==
    /\ pc = "idle"
    /\ LET ld == LoadResult(file, cache, FALSE)
           r == IF ld.raised = "" THEN UpdateResult(ld.value, updates)
                ELSE [raised |-> ld.raised, config |-> None]
       IN /\ cache' = ld.cache
          /\ lastGood' = IF ld.read THEN ld.value ELSE lastGood
          /\ IF r.raised # ""
             THEN /\ op' = Op("update", <<>>, Updates(updates),
                              Reraised(r.raised),
                              ReraisedMessage(r.raised, "setting updates",
                                              <<>>, Updates(updates)),
                              TRUE)
                  /\ sv' = NoSave
                  /\ UNCHANGED <<pc, pending>>
             ELSE /\ op' = Op("update", <<>>, Updates(updates), "", None, FALSE)
                  /\ BeginSave(r.config, ld.cache)
    /\ UNCHANGED <<file, max_revisions, fs, now, arg, res>>

\* ConfigManager.reset()
Reset ==
    /\ pc = "idle"
    /\ op' = Op("reset", <<>>, None, "", DefaultConfig(now), FALSE)
    /\ BeginSave(DefaultConfig(now), cache)
    /\ UNCHANGED <<file, cache, lastGood, max_revisions, fs, now, arg, res>>

\* save(model), called directly with a valid Config
Save(model) ==
    /\ pc = "idle"
    /\ op' = Op("save", <<>>, model, "", None, FALSE)
    /\ BeginSave(model, cache)
    /\ UNCHANGED <<file, cache, lastGood, max_revisions, fs, now, arg, res>>

\* save, first step: the bytes on disk, if any, are stored as a revision.
SaveSnapshot ==
    /\ pc = "save_snapshot"
    /\ IF file = NoFile
       THEN UNCHANGED <<fs, sv>>
       ELSE \E token \in Tokens :
              LET r == StoreRevision(fs, max_revisions, ConfigPath, file,
                                     now, token)
              IN /\ fs' = r.fs
                 /\ sv' = [sv EXCEPT !.ret = r.ret]
    /\ pc' = "save_write"
    /\ UNCHANGED <<file, cache, lastGood, pending, max_revisions, now, op,
                   arg, res>>

\* save, second step: the new JSON text is written.
SaveWrite ==
    /\ pc = "save_write"
    /\ file' = ModelDumpJson(pending)
    /\ pc' = "save_cache"
    /\ UNCHANGED <<cache, lastGood, pending, sv, max_revisions, fs, now, op,
                   arg, res>>

\* save, last step: the cache takes the saved value; the call returns.
SaveCache ==
    /\ pc = "save_cache"
    /\ cache' = pending
    /\ lastGood' = pending
    /\ pending' = None
    /\ pc' = "idle"
    /\ sv' = NoSave
    /\ op' = [op EXCEPT !.done = TRUE]
    /\ UNCHANGED <<file, max_revisions, fs, now, arg, res>>

SaveInputs == { DefaultConfig(0),
                [DefaultConfig(0) EXCEPT !.v["created_by"] = Str("bob")] }

Next ==
    \/ Tick
    \/ \E force \in BOOLEAN : Load(force)
    \/ \E key \in Keys, default \in Defaults : Get(key, default)
    \/ \E key \in Keys, value \in Values : Set(key, value)
    \/ \E updates \in UpdateMappings : Update(updates)
    \/ Reset
    \/ \E model \in SaveInputs : Save(model)
    \/ SaveSnapshot
    \/ SaveWrite
    \/ SaveCache

Spec == Init /\ [][Next]_vars

(***************************************************************************)
(* The CacheManager on its own: store_revision called directly, for two    *)
(* resources, under a retention limit that a new CacheManager may change.  *)
(***************************************************************************)
CachePaths == {ConfigPath, ReadmePath}
CacheContents == { [t |-> "text", v |-> "old"], [t |-> "text", v |-> "new"] }

\* The calls made: config.json with either content, README with one.
CacheCalls ==
    {call \in [path : CachePaths, content : CacheContents] :
        call.path = ReadmePath => call.content.v = "old"}

\* The retention limits a CacheManager used on its own is constructed with.
MaxCacheRevs == 2

InitCache ==
    /\ file = NoFile
    /\ cache = None
    /\ lastGood = None
    /\ pc = "idle"
    /\ pending = None
    /\ sv = NoSave
    /\ max_revisions \in {ClampRevisions(n) : n \in -1..MaxCacheRevs}
    /\ fs = EmptyFs
    /\ now = 0
    /\ op = Op("init", <<>>, None, "", None, TRUE)
    /\ arg = None
    /\ res = None

\* CacheManager.store_revision(path, content), called directly
StoreRevisionCall(path, content) ==
    /\ pc = "idle"
    /\ \E token \in Tokens :
         LET r == StoreRevision(fs, max_revisions, path, content, now, token)
         IN /\ fs' = r.fs
            /\ op' = Op("store_revision", <<>>,
                        Stored(path, content, Len(ListRevisions(fs, path))),
                        "", r.ret, TRUE)
    /\ UNCHANGED <<file, cache, lastGood, pc, pending, sv, max_revisions, now,
                   arg, res>>

NextCache ==
    \/ Tick
    \/ \E n \in -1..MaxCacheRevs : CacheManagerInit(n)
    \/ \E call \in CacheCalls : StoreRevisionCall(call.path, call.content)

SpecCache == InitCache /\ [][NextCache]_vars

(***************************************************************************)
(* _get_dot_notation_key on its own: called on a dict, a key and a         *)
(* default drawn from bounded sets.                                        *)
(***************************************************************************)
MaxKeyLen == 3      \* segments in a key

Segments == {"a", "b", "d", "e", "z"}
DotKeys == UNION { [1..n -> Segments] : n \in 1..MaxKeyLen }
\* {"a": 1, "b": {"c": "2", "d": {"e": 3}}} of the tests, and others
DotDicts ==
    { Dict([a |-> Int_(1),
            b |-> Dict([c |-> Str("2"), d |-> Dict([e |-> Int_(3)])])]),
      Dict([a |-> Dict([b |-> EmptyDict]), e |-> None]),
      Dict([b |-> Dict([d |-> Str("foo"), z |-> Dict([z |-> Int_(0)])])]),
      EmptyDict,
      ModelDump(DefaultConfig(0)) }
DotDefaults == { None, Str("foo") }

InitDot ==
    /\ file = NoFile
    /\ cache = None
    /\ lastGood = None
    /\ pc = "idle"
    /\ pending = None
    /\ sv = NoSave
    /\ max_revisions = 0
    /\ fs = EmptyFs
    /\ now = 0
    /\ op = Op("init", <<>>, None, "", None, TRUE)
    /\ arg \in [config_dict : DotDicts, key : DotKeys, default : DotDefaults]
    /\ res = [called |-> FALSE, value |-> None]

\* self._get_dot_notation_key(config_dict, key, default)
CallGetDotNotationKey ==
    /\ ~res.called
    /\ res' = [called |-> TRUE,
               value |-> GetDotNotationKey(arg.config_dict, arg.key,
                                           arg.default)]
    /\ UNCHANGED <<file, cache, lastGood, pc, pending, sv, max_revisions, fs,
                   now, op, arg>>

NextDot == CallGetDotNotationKey

SpecDot == InitDot /\ [][NextDot]_vars

----------------------------------------------------------------------------
\* Properties of ConfigManager, checked under Spec.

\* What get(key, default) returns in a state with the given file and cache:
\* the value looked up in the loaded config, or the exception load raises.
GetReturn(file_, cache_, key, default) ==
    LET ld == LoadResult(file_, cache_, FALSE)
    IN IF ld.raised # ""
       THEN [t |-> "raised", v |-> ld.raised]
       ELSE GetValue(ld.value, key, default)

\* set(key, value) is called on a loadable config and the mutated dict
\* fails schema validation.
SetFailsValidation(key, value) ==
    LET ld == LoadResult(file, cache, FALSE)
    IN /\ file # NoFile
       /\ ld.raised = ""
       /\ ModelValidate(SetMutate(ld.value, key, value)) = ValidationError

\* C1 as stated: a set whose mutated dict fails validation raises ValueError
\* and leaves both config.json and the in-memory cache exactly as they were
\* before the call.
C1_FailedSetLeavesFileAndCache ==
    [][\A key \in Keys, value \in Values :
         (op'.name = "set" /\ Set(key, value)
                            /\ SetFailsValidation(key, value))
            => /\ op'.raised = "ValueError"
               /\ file' = file
               /\ cache' = cache]_vars

\* C1 amended: a set whose mutated dict fails validation raises ValueError,
\* starts no save, leaves config.json and the revisions untouched, and leaves
\* the cache as it was when it held a value; an empty cache is filled by the
\* load that set performs first, with the value read from the unchanged file.
C1_FailedSetLeavesFile ==
    [][\A key \in Keys, value \in Values :
         (op'.name = "set" /\ Set(key, value)
                            /\ SetFailsValidation(key, value))
            => /\ op'.raised = "ValueError"
               /\ pc' = "idle"
               /\ file' = file
               /\ fs' = fs
               /\ cache' = IF cache # None THEN cache
                           ELSE ModelValidate(JsonLoads(file))]_vars

\* A set has just failed validation on an existing file with a loaded cache.
C1_Witness ==
    /\ op.name = "set"
    /\ op.raised = "ValueError"
    /\ file # NoFile
    /\ cache = ModelValidate(JsonLoads(file))

\* The config dict once every update of the mapping has been written to it:
\* the flat keys first, then the dotted keys in the mapping's order.
RECURSIVE WriteDotted(_, _)
WriteDotted(config_dict, updates) ==
    IF updates = <<>> THEN config_dict
    ELSE LET item == Head(updates)
         IN WriteDotted(IF HasDot(item.key)
                        THEN SetDotNotationKey(config_dict, item.key,
                                               item.value)
                        ELSE config_dict,
                        Tail(updates))

\* update(updates) is called on a loadable config and the dict with the
\* updates written to it fails schema validation.
UpdateFailsValidation(updates) ==
    LET ld == LoadResult(file, cache, FALSE)
    IN /\ file # NoFile
       /\ ld.raised = ""
       /\ ModelValidate(WriteDotted(FlatUpdate(ModelDump(ld.value), updates),
                                    updates)) = ValidationError

\* C2: an update whose resulting config fails validation raises ValueError
\* and persists nothing: config.json is unchanged, no save is started, no
\* revision is stored, and a get of any key of the batch, the valid ones
\* included, returns what it returned before the call.
C2_FailedUpdatePersistsNothing ==
    [][\A updates \in UpdateMappings :
         (op'.name = "update" /\ Update(updates)
                              /\ UpdateFailsValidation(updates))
            => /\ op'.raised = "ValueError"
               /\ pc' = "idle"
               /\ file' = file
               /\ fs' = fs
               /\ \A i \in 1..Len(updates) :
                    GetReturn(file', cache', updates[i].key, None)
                       = GetReturn(file, cache, updates[i].key, None)]_vars

\* An update holding a valid created_by and an invalid version has just
\* failed, and created_by still reads as before.
C2_Witness ==
    /\ op.name = "update"
    /\ op.raised = "ValueError"
    /\ file # NoFile
    /\ \E i \in 1..Len(op.value.v) : op.value.v[i].key = <<"created_by">>
    /\ GetReturn(file, cache, <<"created_by">>, None) = Str(OSUser)

----------------------------------------------------------------------------
\* Properties of CacheManager, checked under SpecCache.

\* C3 as stated: for every max_revisions = N >= 0 and every resource, after
\* each completed store_revision call the resource has at most N revisions.
C3_RevisionsAtMostN ==
    [][\A path \in CachePaths, content \in CacheContents :
         (op'.name = "store_revision" /\ StoreRevisionCall(path, content))
            => Len(ListRevisions(fs', path)) <= max_revisions]_vars

\* C3 amended: for every max_revisions = N >= 1 and every resource, after each
\* completed store_revision call the resource has at most N revisions; with
\* N = 0 the call stores and deletes nothing, so the resource keeps the
\* revisions it had (none, unless an earlier manager stored some).
C3_RevisionsAtMostNOrUntouched ==
    [][\A path \in CachePaths, content \in CacheContents :
         (op'.name = "store_revision" /\ StoreRevisionCall(path, content))
            => IF max_revisions >= 1
               THEN Len(ListRevisions(fs', path)) <= max_revisions
               ELSE ListRevisions(fs', path) = ListRevisions(fs, path)]_vars

\* A store_revision on a resource that already held max_revisions >= 1
\* revisions has completed, and trimming has brought it back to max_revisions.
C3_Witness ==
    /\ op.name = "store_revision"
    /\ max_revisions >= 1
    /\ op.ret # None
    /\ op.value.v.before = max_revisions
    /\ Len(ListRevisions(fs, op.value.v.path)) = max_revisions

\* C4: with max_revisions = 0, store_revision returns None and creates nothing
\* on disk: no cache root, no CACHEDIR.TAG, no resource directory, no snapshot.
C4_DisabledStoresNothing ==
    [][\A path \in CachePaths, content \in CacheContents :
         (op'.name = "store_revision" /\ StoreRevisionCall(path, content)
                                      /\ max_revisions = 0)
            => /\ op'.ret = None
               /\ fs' = fs]_vars

\* A store_revision with max_revisions = 0 has returned None on a directory
\* that has no cache tree.
C4_Witness ==
    /\ op.name = "store_revision"
    /\ max_revisions = 0
    /\ op.ret = None
    /\ fs = EmptyFs

----------------------------------------------------------------------------
\* Properties of save, checked under Spec.

\* The names of the revisions of config.json.
RevisionNames(fs_) == {f.name : f \in FilesIn(fs_, ConfigPath.stem)}

\* The name sorts after every revision name the resource already has.
SortsLast(fs_, name) == \A n \in RevisionNames(fs_) : NameLess(n, name)

\* C5 as stated: a save performed while the resource file exists adds exactly
\* one new revision for the resource, and a save performed while no file
\* exists adds none.
C5_SaveAddsExactlyOne ==
    [][/\ pc = "save_snapshot"
          => Cardinality(RevisionNames(fs') \ RevisionNames(fs))
                = IF file # NoFile THEN 1 ELSE 0
       /\ pc \in {"save_write", "save_cache"} => fs' = fs]_vars

\* C5 amended: a save performed while the resource file exists adds at most
\* one new revision, none when max_revisions is 0, and exactly one when
\* max_revisions >= 1 and the new snapshot's filename sorts after those already
\* stored; a save performed while no file exists adds none.
C5_SaveAddsAtMostOne ==
    [][/\ pc = "save_snapshot"
          => LET added == RevisionNames(fs') \ RevisionNames(fs)
             IN /\ Cardinality(added) <= 1
                /\ (file = NoFile \/ max_revisions = 0) => added = {}
                /\ (/\ file # NoFile
                    /\ max_revisions >= 1
                    /\ SortsLast(fs, sv'.ret.v.name))
                      => added = {sv'.ret.v.name}
       /\ pc \in {"save_write", "save_cache"} => fs' = fs]_vars

\* A save over an existing file has stored its revision and not yet written.
C5_Witness ==
    /\ pc = "save_write"
    /\ sv.preFile # NoFile
    /\ sv.ret # None
    /\ sv.ret.v.name \in RevisionNames(fs)

\* C6 as stated: in every save over an existing resource file, first a
\* revision holding the pre-save content of the file is stored, then the file
\* is overwritten with the new serialization, then the cache is set to the
\* saved model.
C6_RevisionThenFileThenCache ==
    [][/\ (pc = "save_snapshot" /\ file # NoFile)
          => /\ pc' = "save_write" /\ file' = file /\ cache' = cache
             /\ \E f \in FilesIn(fs', ConfigPath.stem) :
                  /\ f \notin FilesIn(fs, ConfigPath.stem)
                  /\ f.content = file
       /\ pc = "save_write"
          => /\ pc' = "save_cache" /\ file' = ModelDumpJson(pending)
             /\ cache' = cache /\ fs' = fs
       /\ pc = "save_cache"
          => /\ pc' = "idle" /\ cache' = pending
             /\ file' = file /\ fs' = fs]_vars

\* C6 amended: in every save over an existing resource file, first
\* store_revision is given the pre-save content of the file (it keeps a
\* revision of it when max_revisions >= 1 and the new filename sorts after
\* those already stored, and every snapshot it writes holds that pre-save
\* content), then the file is overwritten with the new serialization, then
\* the cache is set to the saved model.
C6_SnapshotThenFileThenCache ==
    [][/\ (pc = "save_snapshot" /\ file # NoFile)
          => /\ pc' = "save_write" /\ file' = file /\ cache' = cache
             /\ \A f \in FilesIn(fs', ConfigPath.stem) :
                  f \notin FilesIn(fs, ConfigPath.stem)
                     => /\ f.content = file
                        /\ sv'.ret = SnapshotPath(f.stem, f.name)
             /\ (max_revisions >= 1 /\ SortsLast(fs, sv'.ret.v.name))
                   => \E f \in FilesIn(fs', ConfigPath.stem) :
                        /\ sv'.ret = SnapshotPath(f.stem, f.name)
                        /\ f.content = file
       /\ pc = "save_write"
          => /\ pc' = "save_cache" /\ file' = ModelDumpJson(pending)
             /\ cache' = cache /\ fs' = fs
       /\ pc = "save_cache"
          => /\ pc' = "idle" /\ cache' = pending
             /\ file' = file /\ fs' = fs]_vars

\* Midway through a save that changes the file: the revision holds the old
\* content, the file holds the new one, the cache is still the old one.
C6_Witness ==
    /\ pc = "save_cache"
    /\ sv.preFile # NoFile
    /\ file = ModelDumpJson(pending)
    /\ file # sv.preFile
    /\ cache = sv.preCache
    /\ cache # pending
    /\ \E f \in FilesIn(fs, ConfigPath.stem) :
         sv.ret = SnapshotPath(f.stem, f.name) /\ f.content = sv.preFile

----------------------------------------------------------------------------
\* Properties of the cache and of set followed by get, checked under Spec.

\* C7: the in-memory cache is either empty or equal to the value most
\* recently loaded from disk or saved, which is a validated Config; it never
\* holds a value that failed validation or a partly mutated one.
C7_CacheIsLastLoadedOrSaved ==
    \/ cache = None
    \/ /\ cache = lastGood
       /\ IsConfig(cache)
       /\ ModelValidate(ModelDump(cache)) = cache

\* A set has failed validation while the cache held a value saved earlier.
C7_Witness ==
    /\ op.name = "set"
    /\ op.raised = "ValueError"
    /\ cache # None
    /\ cache.v["created_by"] = Str("bob")
    /\ file = ModelDumpJson(cache)

\* A set(key, value) has completed without error.
SetCompleted ==
    pc = "idle" /\ op.name = "set" /\ op.raised = "" /\ op.done

\* C8 as stated: after a set(key, value) whose mutated config passes
\* validation, get(key) returns value, for flat keys and for dotted keys such
\* as "a.b.c".
C8_GetReturnsValueSet ==
    SetCompleted
       => \A default \in Defaults :
            GetReturn(file, cache, op.key, default) = op.value

\* C8 amended: after a set(key, value) whose mutated config passes
\* validation, get(key) returns the validated value of the field when key
\* names a schema field (value itself for the string fields, the datetime it
\* denotes for created_at); for a dotted key such as "a.b.c", which names no
\* schema field, the value is dropped and get(key, default) returns default.
C8_GetReturnsValidatedField ==
    SetCompleted
       => \A default \in Defaults :
            LET got == GetReturn(file, cache, op.key, default)
            IN /\ (~HasDot(op.key) /\ op.key[1] \in Fields)
                  => got = IF op.key[1] = "created_at"
                           THEN CoerceDatetime(op.value)
                           ELSE op.value
               /\ HasDot(op.key) => got = default

\* set("created_by", "bob") has completed and get("created_by") returns "bob".
C8_Witness ==
    /\ SetCompleted
    /\ op.key = <<"created_by">>
    /\ op.value = Str("bob")
    /\ GetReturn(file, cache, op.key, None) = Str("bob")

\* The key's first segment is not a field of the config schema.
UnknownKey(key) == key[1] \notin Fields

\* C9: a set or update with a key that is not a field of the config schema,
\* flat or dotted, completes without error, the key does not appear in the
\* persisted config.json, and a later get of that key, or of its first
\* segment, returns the default.
C9_UnknownKeysDropped ==
    [][/\ \A key \in Keys, value \in Values :
            (op'.name = "set" /\ Set(key, value) /\ UnknownKey(key)
                              /\ file # NoFile)
               => op'.raised = ""
       /\ \A updates \in UpdateMappings :
            (/\ op'.name = "update" /\ Update(updates)
             /\ file # NoFile
             /\ \A i \in 1..Len(updates) : UnknownKey(updates[i].key)
             /\ updates # <<>>)
               => op'.raised = ""
       /\ (pc = "save_cache" /\ op.name \in {"set", "update"})
            => \A key \in IF op.name = "set" THEN {op.key}
                          ELSE {op.value.v[i].key : i \in 1..Len(op.value.v)} :
                 UnknownKey(key)
                    => /\ key[1] \notin DOMAIN file'.v
                       /\ \A default \in Defaults :
                            /\ GetReturn(file', cache', key, default) = default
                            /\ GetReturn(file', cache', <<key[1]>>, default)
                                  = default]_vars

----------------------------------------------------------------------------
\* Properties of _get_dot_notation_key, checked under SpecDot.

\* The paths of a dict along which every segment is a key of a mapping.
RECURSIVE PathsOf(_)
PathsOf(d) ==
    IF ~IsDict(d) THEN {}
    ELSE UNION { {<<k>>} \cup {<<k>> \o p : p \in PathsOf(d.v[k])}
                 : k \in DOMAIN d.v }

\* The value such a path addresses.
RECURSIVE ValueAt(_, _)
ValueAt(d, path) ==
    IF path = <<>> THEN d ELSE ValueAt(d.v[Head(path)], Tail(path))

\* C10: for every dotted key and every default D, the lookup returns D when
\* some segment is missing from the dict or the value reached before the last
\* segment is not a mapping, and returns the addressed value exactly when
\* every segment resolves through mappings.
C10_DottedGetDefaultOrAddressed ==
    res.called
       => res.value = IF arg.key \in PathsOf(arg.config_dict)
                      THEN ValueAt(arg.config_dict, arg.key)
                      ELSE arg.default

\* The lookup of "a.b" in a dict whose "a" is the integer 1 has returned the
\* default "foo".
C10_Witness ==
    /\ res.called
    /\ arg.key = <<"a", "b">>
    /\ "a" \in DOMAIN arg.config_dict.v
    /\ ~IsDict(arg.config_dict.v["a"])
    /\ arg.default = Str("foo")
    /\ res.value = Str("foo")

----------------------------------------------------------------------------
\* Properties of the errors of ConfigManager, checked under Spec.

\* A load, get, set or update is called.
ManagerCall == pc = "idle" /\ op'.name \in {"load", "get", "set", "update"}

C12_ValidationFailureIsValueError ==
    [][/\ (/\ pc = "idle" /\ op'.name = "set"
           /\ SetFailsValidation(op'.key, op'.value))
             => /\ op'.raised = "ValueError"
                /\ op'.ret = InvalidValueMessage(ManagerClass, op'.key,
                                                 op'.value)
       /\ (/\ pc = "idle" /\ op'.name = "update"
           /\ UpdateFailsValidation(op'.value.v))
             => /\ op'.raised = "ValueError"
                /\ op'.ret = InvalidValueMessage(ManagerClass, <<>>,
                                                 op'.value)]_vars

\* set("version", "bob") has just raised the ValueError naming the manager,
\* the key and the value.
C12_Witness ==
    /\ op.name = "set"
    /\ op.raised = "ValueError"
    /\ op.ret.t = "Invalid value set"
    /\ op.ret.v.cls = ManagerClass
    /\ op.ret.v.key = <<"version">>
    /\ op.ret.v.value = Str("bob")

\* The dict update(updates) has built once every key of the mapping is
\* written to the dump of the loaded config.
UpdatedDict(updates) ==
    LET ld == LoadResult(file, cache, FALSE)
    IN WriteDotted(FlatUpdate(ModelDump(ld.value), updates), updates)

\* C13: update applies every non-dotted key, then every dotted key, and only
\* then validates once and saves once: an update whose fully applied dict is
\* valid succeeds and starts exactly one save, of the validated dict, whatever
\* the dicts obtained on the way.
C13_UpdateValidatesOnceSavesOnce ==
    [][\A updates \in UpdateMappings :
         (/\ op'.name = "update" /\ Update(updates)
          /\ file # NoFile
          /\ LoadResult(file, cache, FALSE).raised = ""
          /\ ModelValidate(UpdatedDict(updates)) # ValidationError)
            => /\ op'.raised = ""
               /\ pc' = "save_snapshot"
               /\ pending' = ModelValidate(UpdatedDict(updates))]_vars

(***************************************************************************)
(* FMUDirectory: locating the .fmu directory.  A start path is modelled by *)
(* its chain of ancestors: directory 0 is the filesystem root, directory d *)
(* is the child of d - 1 on the chain, and each directory holds a .fmu     *)
(* directory, a .fmu that is not a directory, or no .fmu at all.           *)
(***************************************************************************)
MaxDepth == 3       \* the deepest start path

MarkerKinds == {"absent", "dir", "file"}
Trees == [0..MaxDepth -> MarkerKinds]

\* current.parent: the root is its own parent
Parent(d) == IF d = 0 THEN 0 ELSE d - 1

\* A faulty variant: the search looks at the parent's .fmu first.
FmuDirOfParent(d) == [t |-> "path", v |-> [dir |-> Parent(d), name |-> ".fmu"]]

\* current / ".fmu"
FmuDirOf(d) == [t |-> "path", v |-> [dir |-> d, name |-> ".fmu"]]

\* fmu_dir.is_dir()
IsDirectory(tree, fmu_dir) == tree[fmu_dir.v.dir] = "dir"

\* A faulty variant: a search that finds nothing raises.
SearchExhaustedRaises(r) ==
    [r EXCEPT !.pc = "returned", !.found = None,
              !.raised = "FileNotFoundError"]

\* find_fmu_directory falls out of its loop: return None
SearchExhausted(r) == [r EXCEPT !.pc = "returned", !.found = None]

\* A faulty variant: the parents are searched whatever search_parents says.
SearchesParentsAlways(search_parents) == TRUE

\* if search_parents: ... else: ...
SearchesParents(search_parents) == search_parents

NoSearch ==
    [pc |-> "idle", current |-> 0, visited |-> {}, found |-> None,
     path |-> None, raised |-> "", message |-> "", steps |-> 0]

InitFind ==
    /\ file = NoFile
    /\ cache = None
    /\ lastGood = None
    /\ pc = "idle"
    /\ pending = None
    /\ sv = NoSave
    /\ max_revisions = 0
    /\ fs = EmptyFs
    /\ now = 0
    /\ op = Op("init", <<>>, None, "", None, TRUE)
    /\ arg \in [tree : Trees, start : 0..MaxDepth,
                call : {"find_fmu_directory", "FMUDirectory"},
                search_parents : BOOLEAN]
    /\ res = NoSearch

FindFrame == UNCHANGED <<file, cache, lastGood, pc, pending, sv,
                         max_revisions, fs, now, op, arg>>

\* FMUDirectory.find_fmu_directory(start_path) is called, by the caller or by
\* the constructor: current = start_path, visited = set()
BeginFind == [NoSearch EXCEPT !.pc = "loop", !.current = arg.start]

CallFindFmuDirectory ==
    /\ res.pc = "idle"
    /\ arg.call = "find_fmu_directory"
    /\ res' = BeginFind
    /\ FindFrame

\* FMUDirectory.__init__ up to the lookup
FMUDirectoryInit ==
    /\ res.pc = "idle"
    /\ arg.call = "FMUDirectory"
    /\ res' = IF SearchesParents(arg.search_parents)
              THEN BeginFind
              ELSE LET fmu_dir == FmuDirOf(arg.start)
                   IN [NoSearch EXCEPT
                         !.pc = "looked",
                         !.path = IF IsDirectory(arg.tree, fmu_dir)
                                  THEN fmu_dir ELSE None]
    /\ FindFrame

\* One test of the while condition and, when it holds, one pass of the body.
FindLoop ==
    /\ res.pc = "loop"
    /\ res' = IF res.current \in res.visited
              THEN SearchExhausted(res)
              ELSE LET fmu_dir == FmuDirOf(res.current)
                       seen == [res EXCEPT !.visited = @ \cup {res.current},
                                           !.steps = @ + 1]
                   IN IF IsDirectory(arg.tree, fmu_dir)
                      THEN [seen EXCEPT !.pc = "returned", !.found = fmu_dir]
                      ELSE IF res.current = Parent(res.current)
                      THEN SearchExhausted(seen)
                      ELSE [seen EXCEPT !.current = Parent(res.current)]
    /\ FindFrame

\* The constructor takes what the search returned.
FMUDirectoryInitFound ==
    /\ res.pc = "returned"
    /\ arg.call = "FMUDirectory"
    /\ res.raised = ""
    /\ res' = [res EXCEPT !.pc = "looked", !.path = res.found]
    /\ FindFrame

\* The constructor raises when no .fmu was found, and is done otherwise.
FMUDirectoryInitEnd ==
    /\ res.pc = "looked"
    /\ res' = IF res.path = None
              THEN [res EXCEPT
                      !.pc = "done",
                      !.raised = "FileNotFoundError",
                      !.message = IF SearchesParents(arg.search_parents)
                                  THEN "No .fmu directory found at or above"
                                  ELSE "No .fmu directory found at"]
              ELSE [res EXCEPT !.pc = "done"]
    /\ FindFrame

NextFind ==
    \/ CallFindFmuDirectory
    \/ FMUDirectoryInit
    \/ FindLoop
    \/ FMUDirectoryInitFound
    \/ FMUDirectoryInitEnd

SpecFind == InitFind /\ [][NextFind]_vars

\* The interpreter keeps running the call until it returns or raises.
SpecFindFair == SpecFind /\ WF_vars(NextFind)

----------------------------------------------------------------------------
\* Properties of the .fmu lookup, checked under SpecFind and SpecFindFair.

\* The directories of the start path's ancestor chain, itself included, that
\* contain a .fmu directory.
WithFmu == {d \in 0..arg.start : arg.tree[d] = "dir"}

\* C14: for every start path with at least one directory in its ancestor
\* chain (itself included) containing a .fmu directory, the upward search
\* returns the .fmu of the closest such directory, never a farther one.
C14_NearestFmuWins ==
    (res.pc = "returned" /\ WithFmu # {})
       => \E d \in WithFmu :
            /\ \A e \in WithFmu : e <= d
            /\ res.found = FmuDirOf(d)

\* The search from a directory without .fmu, below two nested directories
\* that have one, has returned the .fmu of the nearer.
C14_Witness ==
    /\ res.pc = "returned"
    /\ arg.start \notin WithFmu
    /\ \E d, e \in WithFmu : e < d /\ res.found = FmuDirOf(d)

\* C15: for every start path find_fmu_directory terminates, after at most
\* one pass per directory of the chain, and when no directory of the chain
\* contains a .fmu directory it returns None without raising; only the
\* FMUDirectory constructor turns the absence into FileNotFoundError.
C15_FindTerminatesReturningNone ==
    /\ (res.pc = "loop") ~> (res.pc = "returned")
    /\ [](res.steps <= arg.start + 1)
    /\ []((res.pc = "returned" /\ WithFmu = {})
             => (res.found = None /\ res.raised = ""))
    /\ [](res.raised # ""
             => /\ arg.call = "FMUDirectory"
                /\ res.pc = "done"
                /\ res.raised = "FileNotFoundError")

\* A direct call from a start path at least two levels deep, with no .fmu
\* directory anywhere above, has walked to the root and returned None.
C15_Witness ==
    /\ res.pc = "returned"
    /\ arg.call = "find_fmu_directory"
    /\ arg.start >= 2
    /\ WithFmu = {}
    /\ res.steps = arg.start + 1
    /\ res.found = None
    /\ res.raised = ""

\* The constructor has finished with search_parents=False.
ExactLookupDone ==
    arg.call = "FMUDirectory" /\ ~arg.search_parents /\ res.pc = "done"

\* C16: with search_parents=False, constructing FMUDirectory succeeds iff
\* base_path/.fmu itself is a directory, and then uses that directory;
\* otherwise it raises FileNotFoundError "No .fmu directory found at <base>",
\* also when an ancestor of base_path contains a .fmu directory.
C16_ExactLookupOnly ==
    ExactLookupDone
       => IF arg.tree[arg.start] = "dir"
          THEN res.raised = "" /\ res.path = FmuDirOf(arg.start)
          ELSE /\ res.raised = "FileNotFoundError"
               /\ res.message = "No .fmu directory found at"
               /\ res.path = None

\* The constructor has raised with search_parents=False although the parent
\* of base_path holds a .fmu directory.
C16_Witness ==
    /\ ExactLookupDone
    /\ arg.start >= 1
    /\ arg.tree[arg.start] # "dir"
    /\ arg.tree[arg.start - 1] = "dir"
    /\ res.raised = "FileNotFoundError"

(***************************************************************************)
(* The log managers.  A session constructs managers on a .fmu directory    *)
(* that may hold the log files of an earlier session.                      *)
(***************************************************************************)
\* Path("logs") / <name>.json
LogPath(stem) == [stem |-> stem, suffix |-> ".json"]

\* LogFileName.eventlog
LogFileNameEventlog == "eventlog"

\* UserlogManager.relative_path
UserlogRelativePath == LogPath(LogFileNameEventlog)

\* EventlogManager.relative_path
EventlogRelativePath == LogPath(LogFileNameEventlog)

\* The file a user log is kept in, logs/userlog.json.
UserlogFile == LogPath("userlog")

\* self.exists, self.fmu_dir.read_text_file(path), self.path.unlink()
Exists(fs_, path) == fs_.logs[path.stem] # NoFile
ReadLog(fs_, path) == fs_.logs[path.stem]
Unlink(fs_, path) == [fs_ EXCEPT !.logs[path.stem] = NoFile]

\* What earlier sessions have left in a log file.
LogContents == { [t |-> "log", v |-> "entries of session 1"],
                 [t |-> "log", v |-> "entries of session 2"] }

InitLog ==
    /\ file = NoFile
    /\ cache = None
    /\ lastGood = None
    /\ pc = "idle"
    /\ pending = None
    /\ sv = NoSave
    /\ max_revisions \in {ClampRevisions(n) : n \in -1..MaxRevs}
    /\ \E logs \in [LogFileNames -> LogContents \cup {NoFile}] :
         fs = [EmptyFs EXCEPT !.logs = logs]
    /\ now = 0
    /\ op = Op("init", <<>>, None, "", None, TRUE)
    /\ arg = None
    /\ res = None

LogFrame == UNCHANGED <<file, cache, lastGood, pc, pending, sv,
                        max_revisions, now, arg, res>>

\* UserlogManager.__init__: a log file left at relative_path is stored as a
\* revision and deleted.
UserlogManagerInit ==
    /\ pc = "idle"
    /\ IF Exists(fs, UserlogRelativePath)
       THEN \E token \in Tokens :
              LET content == ReadLog(fs, UserlogRelativePath)
                  r == StoreRevision(fs, max_revisions, UserlogRelativePath,
                                     content, now, token)
              IN /\ fs' = Unlink(r.fs, UserlogRelativePath)
                 /\ op' = Op("UserlogManager", <<>>, None, "", r.ret, TRUE)
       ELSE /\ fs' = fs
            /\ op' = Op("UserlogManager", <<>>, None, "", None, TRUE)
    /\ LogFrame

\* EventlogManager.__init__
EventlogManagerInit ==
    /\ pc = "idle"
    /\ fs' = fs
    /\ op' = Op("EventlogManager", <<>>, None, "", None, TRUE)
    /\ LogFrame

\* An earlier session leaves its log in a file.
SessionLeavesLog ==
    /\ pc = "idle"
    /\ \E name \in LogFileNames, content \in LogContents :
         fs' = [fs EXCEPT !.logs[name] = content]
    /\ op' = Op("session", <<>>, None, "", None, TRUE)
    /\ LogFrame

NextLog ==
    \/ Tick
    \/ \E n \in -1..MaxRevs : CacheManagerInit(n)
    \/ UserlogManagerInit
    \/ EventlogManagerInit
    \/ SessionLeavesLog

SpecLog == InitLog /\ [][NextLog]_vars

----------------------------------------------------------------------------
\* Properties of the log managers, checked under SpecLog.

\* C17: constructing the user-log manager while userlog.json exists from a
\* previous session stores that file's content as a new revision and then
\* deletes the live file: right after construction userlog.json is absent and
\* its former content is the content of the newest revision.
C17_UserlogArchivedThenDeleted ==
    [][(op'.name = "UserlogManager" /\ UserlogManagerInit
                                    /\ Exists(fs, UserlogFile))
          => /\ ~Exists(fs', UserlogFile)
             /\ LET revisions == ListRevisions(fs', UserlogFile)
                IN /\ revisions # <<>>
                   /\ revisions[Len(revisions)].content
                         = ReadLog(fs, UserlogFile)]_vars

\* C18: the event log persists across sessions: constructing any manager of
\* a new session, the user-log manager included, leaves logs/eventlog.json
\* present with unchanged content and stores no revision of it.
C18_EventlogPersists ==
    [][(/\ op'.name \in {"UserlogManager", "EventlogManager", "cache_init"}
        /\ pc = "idle"
        /\ Exists(fs, EventlogRelativePath))
          => /\ ReadLog(fs', EventlogRelativePath)
                   = ReadLog(fs, EventlogRelativePath)
             /\ ListRevisions(fs', EventlogRelativePath)
                   = ListRevisions(fs, EventlogRelativePath)]_vars

----------------------------------------------------------------------------
\* Properties of the revision order, checked under SpecCache.

\* C19: after any interleaving of store_revision calls and of the trimming
\* they do, list_revisions returns the resource's snapshot files in ascending
\* filename order, none listed twice and none that exists left out.
C19_ListSortedAndComplete ==
    \A path \in CachePaths :
       LET listed == ListRevisions(fs, path)
           files == FilesIn(fs, path.stem)
       IN /\ \A i, j \in 1..Len(listed) :
               i < j => NameLess(listed[i].name, listed[j].name)
          /\ {listed[i] : i \in 1..Len(listed)} = files
          /\ Len(listed) = Cardinality(files)

\* A store_revision on a resource that held two revisions has trimmed one,
\* and two are listed.
C19_Witness ==
    /\ op.name = "store_revision"
    /\ op.value.v.before = 2
    /\ max_revisions = 2
    /\ Len(ListRevisions(fs, op.value.v.path)) = 2

\* C20: for the revisions of one resource written by sequential
\* store_revision calls, filename order equals creation order: the snapshot a
\* call writes sorts after every revision stored earlier, so that trimming
\* deletes the earliest stored revisions and keeps the one just written.
C20_FilenameOrderIsCreationOrder ==
    [][\A path \in CachePaths, content \in CacheContents :
         (/\ op'.name = "store_revision"
          /\ StoreRevisionCall(path, content)
          /\ max_revisions >= 1)
            => /\ \A f \in FilesIn(fs, path.stem) :
                    NameLess(f.name, op'.ret.v.name)
               /\ op'.ret.v.name
                     \in {f.name : f \in FilesIn(fs', path.stem)}]_vars

----------------------------------------------------------------------------
\* Properties of the cache-directory tag, checked under SpecCache.

\* C21: once CACHEDIR.TAG exists at the cache root, no later store_revision
\* call, for any resource, writes to it: it is created at most once and its
\* content stays the fixed signature text.
C21_TagWrittenOnce ==
    /\ [](fs.tagWrites <= 1)
    /\ [](fs.tag # NoFile => fs.tag = CachedirTagContent)
    /\ [][fs.tag # NoFile
            => fs'.tag = fs.tag /\ fs'.tagWrites = fs.tagWrites]_vars

\* store_revision has run for both resources, the later call finding the tag
\* that the earlier one created.
C21_Witness ==
    /\ op.name = "store_revision"
    /\ fs.dirs = {ConfigPath.stem, ReadmePath.stem}
    /\ op.value.v.before = 1
    /\ fs.tag = CachedirTagContent
    /\ fs.tagWrites = 1

(***************************************************************************)
(* Two store_revision calls on config.json running concurrently on one     *)
(* CacheManager.  res[p] is the frame of call p: where it is, the names it *)
(* saw in the cache directory, the revisions it still has to unlink, what  *)
(* it raised, what it returned and whether an unlink found its file gone.  *)
(* A call goes through the write (lines 68-75), the directory scan and the *)
(* is_file filter of _trim (line 132) and one unlink at a time (138-142);  *)
(* the steps of the two calls interleave freely.  When both calls have     *)
(* returned, two new calls may begin.                                      *)
(***************************************************************************)
Procs == {1, 2}

\* What call p writes.
RaceContent(p) == IF p = 1 THEN [t |-> "text", v |-> "old"]
                  ELSE [t |-> "text", v |-> "new"]

NoCall == [pc |-> "start", seen |-> {}, todo |-> <<>>, raised |-> "",
           ret |-> None, absorbed |-> FALSE]

InitRace ==
    /\ file = NoFile
    /\ cache = None
    /\ lastGood = None
    /\ pc = "idle"
    /\ pending = None
    /\ sv = NoSave
    /\ max_revisions \in {ClampRevisions(n) : n \in -1..MaxCacheRevs}
    /\ fs = EmptyFs
    /\ now = 0
    /\ op = Op("init", <<>>, None, "", None, TRUE)
    /\ arg = None
    /\ res = [p \in Procs |-> NoCall]

RaceFrame == UNCHANGED <<file, cache, lastGood, pc, pending, sv,
                         max_revisions, now, op, arg>>

\* store_revision up to the write: the guard, the directories, the name and
\* the snapshot file.
RaceWrite(p) ==
    /\ res[p].pc = "start"
    /\ IF max_revisions = 0
       THEN /\ res' = [res EXCEPT ![p].pc = "done"]
            /\ fs' = fs
       ELSE \E token \in Tokens :
              LET snapshot_name == SnapshotFilename(ConfigPath, now, token)
              IN /\ fs' = WriteSnapshot(EnsureConfigCacheDir(fs, ConfigPath),
                                        ConfigPath.stem, snapshot_name,
                                        RaceContent(p))
                 /\ res' = [res EXCEPT
                              ![p].pc = "scan",
                              ![p].ret = SnapshotPath(ConfigPath.stem,
                                                      snapshot_name)]
    /\ RaceFrame

\* _trim: cache_dir.iterdir() reads the directory.
RaceScan(p) ==
    /\ res[p].pc = "scan"
    /\ res' = [res EXCEPT ![p].pc = "filter",
                          ![p].seen = FilesIn(fs, ConfigPath.stem)]
    /\ fs' = fs
    /\ RaceFrame

\* The revisions _trim unlinks: the excess over the limit, oldest name first.
Excess(revisions, max_revisions_) ==
    IF Cardinality(revisions) <= max_revisions_ THEN <<>>
    ELSE SubSeq(SortByName(revisions), 1,
                Cardinality(revisions) - max_revisions_)

\* _trim: p.is_file() keeps the entries that are still files; the length
\* test and the sort follow.
RaceFilter(p) ==
    /\ res[p].pc = "filter"
    /\ LET revisions == {f \in res[p].seen :
                           \E g \in FilesIn(fs, ConfigPath.stem) :
                              g.name = f.name}
           todo == Excess(revisions, max_revisions)
       IN res' = [res EXCEPT ![p].pc = IF todo = <<>> THEN "done" ELSE "unlink",
                             ![p].seen = revisions,
                             ![p].todo = todo]
    /\ fs' = fs
    /\ RaceFrame

\* A faulty variant: the FileNotFoundError of unlink is not caught.
UnlinkMissingRaises(r) ==
    [r EXCEPT !.pc = "done", !.todo = <<>>, !.raised = "FileNotFoundError",
              !.ret = None]

\* old_revision.unlink() on a file that is gone: the FileNotFoundError is
\* caught and the loop continues.
UnlinkMissing(r) ==
    [r EXCEPT !.todo = Tail(@), !.absorbed = TRUE,
              !.pc = IF Len(r.todo) = 1 THEN "done" ELSE "unlink"]

\* _trim: one turn of the unlink loop.
RaceUnlink(p) ==
    /\ res[p].pc = "unlink"
    /\ LET old_revision == Head(res[p].todo)
           present == \E g \in FilesIn(fs, ConfigPath.stem) :
                         g.name = old_revision.name
       IN IF present
          THEN /\ fs' = [fs EXCEPT !.snaps =
                           {g \in @ : ~(g.stem = ConfigPath.stem
                                        /\ g.name = old_revision.name)}]
               /\ res' = [res EXCEPT
                            ![p].todo = Tail(@),
                            ![p].pc = IF Len(res[p].todo) = 1 THEN "done"
                                      ELSE "unlink"]
          ELSE /\ fs' = fs
               /\ res' = [res EXCEPT ![p] = UnlinkMissing(res[p])]
    /\ RaceFrame

\* Both calls have returned; another two begin.
RaceAgain ==
    /\ \A p \in Procs : res[p].pc = "done"
    /\ res' = [p \in Procs |-> NoCall]
    /\ fs' = fs
    /\ RaceFrame

NextRace ==
    \/ Tick
    \/ \E p \in Procs : RaceWrite(p)
    \/ \E p \in Procs : RaceScan(p)
    \/ \E p \in Procs : RaceFilter(p)
    \/ \E p \in Procs : RaceUnlink(p)
    \/ RaceAgain

SpecRace == InitRace /\ [][NextRace]_vars

----------------------------------------------------------------------------
\* Properties of concurrent store_revision calls, checked under SpecRace.

\* C22: when two store_revision calls on the same resource run concurrently,
\* in any interleaving of their write, list and delete steps, neither raises
\* because a file it wants to delete was already removed by the other, and
\* once both have completed the resource has at most max_revisions revisions.
C22_RacingTrimsAbsorbMissingFiles ==
    /\ \A p \in Procs : res[p].raised = ""
    /\ (\A p \in Procs : res[p].pc = "done")
          => Cardinality(FilesIn(fs, ConfigPath.stem)) <= max_revisions

\* Both calls have returned, one of them after finding a revision it meant
\* to unlink already removed by the other.
C22_Witness ==
    /\ \A p \in Procs : res[p].pc = "done" /\ res[p].ret # None
    /\ \E p \in Procs : res[p].absorbed
    /\ Cardinality(FilesIn(fs, ConfigPath.stem)) = max_revisions


\* C23: two store_revision calls for the same resource, concurrent or in the
\* same timestamp instant, never write to the same snapshot filename: each
\* call creates a file that did not exist before and never overwrites an
\* existing revision.
C23_WriteCreatesNewFile ==
    [][\A p \in Procs :
         (res[p].pc = "start" /\ res'[p].pc = "scan")
            => /\ \A f \in FilesIn(fs, ConfigPath.stem) :
                     f.name # res'[p].ret.v.name
               /\ FilesIn(fs, ConfigPath.stem)
                     \subseteq FilesIn(fs', ConfigPath.stem)]_vars

(***************************************************************************)
(* The resource manager's load and save on a config.json that may also be  *)
(* changed from outside the manager: removed, overwritten with text that   *)
(* is not JSON, with JSON that does not validate, or with another valid    *)
(* config.                                                                 *)
(***************************************************************************)
NotJson == [t |-> "text", v |-> "{ not json"]
InvalidJson ==
    [t |-> "json", v |-> [version |-> Str("bob"), created_at |-> IsoStr(0),
                          created_by |-> Str(OSUser)]]
OtherJson ==
    ModelDumpJson([DefaultConfig(0) EXCEPT !.v["created_by"] = Str("other")])
FileContents == {NoFile, NotJson, InvalidJson, OtherJson}

\* The models given to save: the defaults of each clock reading, and one
\* with another creator.
LoadSaveInputs == SaveInputs \cup {DefaultConfig(n) : n \in 0..MaxClock}

\* config.json is changed by something other than the manager.
FileChanged(content) ==
    /\ pc = "idle"
    /\ file # content
    /\ file' = content
    /\ op' = Op("file_changed", <<>>, content, "", None, TRUE)
    /\ sv' = NoSave
    /\ UNCHANGED <<cache, lastGood, pc, pending, max_revisions, fs, now,
                   arg, res>>

NextLoad ==
    \/ \E force \in BOOLEAN : Load(force)
    \/ \E model \in LoadSaveInputs : Save(model)
    \/ SaveSnapshot
    \/ SaveWrite
    \/ SaveCache
    \/ \E content \in FileContents : FileChanged(content)

SpecLoad == Init /\ [][NextLoad]_vars

----------------------------------------------------------------------------
\* Properties of load and save, checked under SpecLoad.

FileModel(file_) ==
    IF file_.t = "json" THEN ModelValidate(JsonLoads(file_))
    ELSE ValidationError

\* C25: load() without force returns the cached value whenever the cache is
\* populated, without reading the file, so that it neither fails nor changes
\* when the file was corrupted, changed or removed after caching;
\* load(force=True) always reads and validates the file again and replaces
\* the cache only on success.
C25_LoadUsesCacheUnlessForced ==
    [][/\ (op'.name = "load" /\ Load(FALSE) /\ cache # None)
          => /\ op'.raised = ""
             /\ op'.ret = cache
             /\ ~op'.value.v.read
             /\ cache' = cache
             /\ file' = file
       /\ (op'.name = "load" /\ Load(TRUE))
          => IF FileModel(file) # ValidationError
             THEN /\ op'.raised = ""
                  /\ op'.value.v.read
                  /\ op'.ret = FileModel(file)
                  /\ cache' = FileModel(file)
             ELSE /\ op'.raised # ""
                  /\ cache' = cache]_vars

\* A load without force has just returned the cached model although the file
\* no longer holds it.
C25_Witness ==
    /\ op.name = "load"
    /\ op.key = <<>>
    /\ op.raised = ""
    /\ ~op.value.v.read
    /\ op.ret = cache
    /\ file \in {NoFile, NotJson, InvalidJson}

(***************************************************************************)
(* init_fmu_directory.  res is the base directory: whether it exists, what *)
(* its .fmu entry is (absent, a directory or a file) and the README inside *)
(* .fmu; file is .fmu/config.json.  The directory may have been            *)
(* initialized before, and may be removed again.                           *)
(***************************************************************************)
ReadmeText ==
    [t |-> "text",
     v |-> "This directory contains static configuration data for your FMU project."]
EditedText == [t |-> "text", v |-> "edited"]

\* What is given as config_data: nothing, a Config, a dict that validates and
\* a dict that does not.  The ones given carry an old timestamp and another
\* creator.
StaleConfig ==
    [t |-> "Config",
     v |-> [version |-> Str(PackageVersion), created_at |-> Datetime(0),
            created_by |-> Str("other")]]
ValidConfigDict == ModelDump(StaleConfig)
InvalidConfigDict == DictSet(ValidConfigDict, "version", Str("bob"))
ConfigDataOptions == {None, StaleConfig, ValidConfigDict, InvalidConfigDict}

\* A faulty variant: a given config keeps the created_at it came with.
CreateConfigModelStale(config_data, clock) ==
    IF config_data = None THEN DefaultConfig(clock)
    ELSE IF IsConfig(config_data) THEN config_data
    ELSE ModelValidate(config_data)

\* _create_config_model: the default Config, or the one given (validated if
\* a dict) with created_at set to now; ValidationError if it does not
\* validate.
CreateConfigModel(config_data, clock) ==
    IF config_data = None THEN DefaultConfig(clock)
    ELSE LET config == IF IsConfig(config_data) THEN config_data
                       ELSE ModelValidate(config_data)
         IN IF config = ValidationError THEN ValidationError
            ELSE [config EXCEPT !.v["created_at"] = Datetime(clock)]

BasePathMissing == [t |-> "Base path does not exist", v |-> 0]
FmuExists == [t |-> "already exists", v |-> 0]
FmuNotADirectory == [t |-> "exists but is not a directory", v |-> 0]

\* A faulty variant: an existing .fmu directory is accepted, only a file of
\* that name is refused.
CreateFmuDirectoryExistOk(base) ==
    IF ~base.base
    THEN [raised |-> "FileNotFoundError", message |-> BasePathMissing,
          base |-> base]
    ELSE IF base.fmu = "file"
    THEN [raised |-> "FileExistsError", message |-> FmuNotADirectory,
          base |-> base]
    ELSE [raised |-> "", message |-> None, base |-> [base EXCEPT !.fmu = "dir"]]

\* _create_fmu_directory: what is raised, and the base directory afterwards
\* (with the new, empty .fmu when nothing was raised).
CreateFmuDirectory(base) ==
    IF ~base.base
    THEN [raised |-> "FileNotFoundError", message |-> BasePathMissing,
          base |-> base]
    ELSE IF base.fmu # "absent"
    THEN [raised |-> "FileExistsError",
          message |-> IF base.fmu = "dir" THEN FmuExists
                      ELSE FmuNotADirectory,
          base |-> base]
    ELSE [raised |-> "", message |-> None, base |-> [base EXCEPT !.fmu = "dir"]]

\* The FMUDirectory returned: the one at base_path/.fmu.
FmuDirectoryAtBase == [t |-> "FMUDirectory", v |-> ".fmu"]

InitInit ==
    /\ res \in {b \in [base : BOOLEAN, fmu : MarkerKinds,
                       readme : {NoFile, ReadmeText, EditedText}] :
                  /\ ~b.base => b.fmu = "absent"
                  /\ b.fmu # "dir" => b.readme = NoFile}
    /\ file \in {NoFile, ModelDumpJson(DefaultConfig(0)), OtherJson}
    /\ res.fmu # "dir" => file = NoFile
    /\ cache = None
    /\ lastGood = None
    /\ pc = "idle"
    /\ pending = None
    /\ sv = NoSave
    /\ max_revisions = 0
    /\ fs = EmptyFs
    /\ now = 0
    /\ op = Op("init", <<>>, None, "", None, TRUE)
    /\ arg = None

InitFrame == UNCHANGED <<cache, lastGood, pc, pending, sv, max_revisions, fs,
                         now, arg>>

\* init_fmu_directory(base_path, config_data)
InitFmuDirectory(config_data) ==
    /\ LET made == CreateFmuDirectory(res)
           config == CreateConfigModel(config_data, now)
       IN IF made.raised # ""
          THEN /\ op' = Op("init_fmu_directory", <<>>, config_data,
                           made.raised, made.message, TRUE)
               /\ UNCHANGED <<file, res>>
          ELSE IF config = ValidationError
          THEN /\ op' = Op("init_fmu_directory", <<>>, config_data,
                           "ValidationError", None, TRUE)
               /\ res' = made.base
               /\ file' = file
          ELSE /\ op' = Op("init_fmu_directory", <<>>, config_data, "",
                           FmuDirectoryAtBase, TRUE)
               /\ file' = ModelDumpJson(config)
               /\ res' = [made.base EXCEPT !.readme = ReadmeText]
    /\ InitFrame

\* The base directory is made.
MakeBase ==
    /\ ~res.base
    /\ res' = [res EXCEPT !.base = TRUE]
    /\ op' = Op("mkdir", <<>>, None, "", None, TRUE)
    /\ file' = file
    /\ InitFrame

\* The .fmu entry is removed with all it holds.
RemoveFmu ==
    /\ res.fmu # "absent"
    /\ res' = [res EXCEPT !.fmu = "absent", !.readme = NoFile]
    /\ file' = NoFile
    /\ op' = Op("remove", <<>>, None, "", None, TRUE)
    /\ InitFrame

NextInit ==
    \/ Tick
    \/ \E config_data \in ConfigDataOptions : InitFmuDirectory(config_data)
    \/ MakeBase
    \/ RemoveFmu

SpecInit == InitInit /\ [][NextInit]_vars

----------------------------------------------------------------------------
\* Properties of init_fmu_directory, checked under SpecInit.

\* config_data is nothing, a Config or a dict that validates.
UsableConfigData(config_data) ==
    \/ config_data = None
    \/ IsConfig(config_data)
    \/ IsDict(config_data) /\ ModelValidate(config_data) # ValidationError

C27_InitRefusesExistingOrMissing ==
    [][op'.name = "init_fmu_directory"
          => /\ (res.base /\ res.fmu # "absent")
                   => /\ op'.raised = "FileExistsError"
                      /\ res' = res
                      /\ file' = file
             /\ ~res.base
                   => /\ op'.raised = "FileNotFoundError"
                      /\ res' = res
                      /\ file' = file]_vars

\* An initialization was refused on a .fmu directory that holds a config and
\* an edited README.
C27_Witness ==
    /\ op.name = "init_fmu_directory"
    /\ op.raised = "FileExistsError"
    /\ op.ret = FmuExists
    /\ res.fmu = "dir"
    /\ res.readme = EditedText
    /\ file = OtherJson

(***************************************************************************)
(* Appending to the logs.  A log file holds [t |-> "log", v |-> entries],  *)
(* the ordered sequence of its entries.  One session has an event-log      *)
(* manager and a user-log manager; res[m] is manager m's cached log (None  *)
(* when it has loaded nothing).  An append loads the current sequence      *)
(* through the manager's load (the cached value if there is one), or takes *)
(* the empty sequence when the file is absent, appends the entry and saves *)
(* the whole sequence, which also becomes the cached value.                *)
(***************************************************************************)
MaxLogLen == 3      \* entries in one log file

LogManagers == {"eventlog", "userlog"}
LogEntries == {"entry a", "entry b"}
LogOf(entries) == [t |-> "log", v |-> entries]

\* manager.relative_path
RelativePathOf(m) ==
    IF m = "userlog" THEN UserlogRelativePath ELSE EventlogRelativePath

\* A faulty variant: only the new entry is written.
AppendedLogOnlyNew(current, entry) == LogOf(<<entry>>)

\* log_model.add_entry(entry)
AppendedLog(current, entry) == LogOf(Append(current.v, entry))

\* The sequence an append starts from: the manager's load when the file
\* exists, else the empty log.
CurrentLog(fs_, cache_, path) ==
    IF ~Exists(fs_, path) THEN LogOf(<<>>)
    ELSE IF cache_ # None THEN cache_
    ELSE ReadLog(fs_, path)

InitAppend ==
    /\ file = NoFile
    /\ cache = None
    /\ lastGood = None
    /\ pc = "idle"
    /\ pending = None
    /\ sv = NoSave
    /\ max_revisions = 0
    /\ \E name \in LogFileNames, entries \in {<<>>, <<"entry a">>} :
         fs \in {EmptyFs, [EmptyFs EXCEPT !.logs[name] = LogOf(entries)]}
    /\ now = 0
    /\ op = Op("init", <<>>, None, "", None, TRUE)
    /\ arg = None
    /\ res = [m \in LogManagers |-> None]

\* manager.add_log_entry(entry)
AddLogEntry(m, entry) ==
    /\ LET path == RelativePathOf(m)
           log_model == AppendedLog(CurrentLog(fs, res[m], path), entry)
       IN /\ Len(log_model.v) <= MaxLogLen
          /\ fs' = [fs EXCEPT !.logs[path.stem] = log_model]
          /\ res' = [res EXCEPT ![m] = log_model]
          /\ op' = Op("add_log_entry", <<m>>, LogOf(<<entry>>), "", None, TRUE)
    /\ UNCHANGED <<file, cache, lastGood, pc, pending, sv, max_revisions,
                   now, arg>>

\* The session ends and another begins with managers that have loaded
\* nothing.
NewManagers ==
    /\ res # [m \in LogManagers |-> None]
    /\ res' = [m \in LogManagers |-> None]
    /\ op' = Op("managers", <<>>, None, "", None, TRUE)
    /\ UNCHANGED <<file, cache, lastGood, pc, pending, sv, max_revisions, fs,
                   now, arg>>

NextAppend ==
    \/ \E m \in LogManagers, entry \in LogEntries : AddLogEntry(m, entry)
    \/ NewManagers

SpecAppend == InitAppend /\ [][NextAppend]_vars

----------------------------------------------------------------------------
\* Properties of the log appends, checked under SpecAppend.

\* The entries of the file at path, none if it is absent.
PersistedEntries(fs_, path) ==
    IF Exists(fs_, path) THEN ReadLog(fs_, path).v ELSE <<>>

\* C28: after any sequence of append operations on a log, the persisted log
\* is the sequence that existed before (empty if the file was absent)
\* followed by the appended entries in call order: every append extends the
\* sequence by exactly one entry at the end and never alters, reorders or
\* removes an earlier entry.
C28_AppendExtendsByOne ==
    [][\A m \in LogManagers :
         (op'.name = "add_log_entry" /\ op'.key = <<m>>)
            => PersistedEntries(fs', RelativePathOf(m))
                  = Append(PersistedEntries(fs, RelativePathOf(m)),
                           op'.value.v[1])]_vars

\* The same for the appends of a session in which only the event-log manager
\* has appended.
EventlogAloneAppendExtendsByOne ==
    [][(op'.name = "add_log_entry" /\ op'.key = <<"eventlog">>
        /\ res["userlog"] = None)
          => PersistedEntries(fs', EventlogRelativePath)
                = Append(PersistedEntries(fs, EventlogRelativePath),
                         op'.value.v[1])]_vars

----------------------------------------------------------------------------
\* Properties of reset, checked under Spec.

\* The default Config of a reset called at the given time.
ExpectedDefault(clock) ==
    [t |-> "Config",
     v |-> [version |-> Str(PackageVersion), created_at |-> Datetime(clock),
            created_by |-> Str(OSUser)]]

\* A reset of an existing config completes.
ResetCompletes ==
    /\ op.name = "reset"
    /\ pc = "save_cache"
    /\ sv.preFile # NoFile

\* What a completed reset leaves: the default value in the file and in the
\* cache, and returned; the load that follows returns it.
ResetWritesDefault ==
    /\ ResetCompletes
          => /\ op.ret = ExpectedDefault(now)
             /\ file' = ModelDumpJson(ExpectedDefault(now))
             /\ cache' = ExpectedDefault(now)
    /\ (op.name = "reset" /\ op.done /\ pc = "idle" /\ op'.name = "load")
          => /\ op'.raised = ""
             /\ op'.ret = op.ret

\* C29 as stated: reset on an existing config replaces it with a default
\* Config (package version, created_at = now, created_by = current OS user)
\* by going through save: afterwards load returns that default value,
\* config.json holds its serialization, and the previous on-disk content is
\* kept as a revision.
C29_ResetKeepsPreviousAsRevision ==
    [][/\ ResetWritesDefault
       /\ ResetCompletes
             => \E f \in FilesIn(fs', ConfigPath.stem) :
                   f.content = sv.preFile]_vars

\* C29, amended: the same, the previous on-disk content being kept as a
\* revision when max_revisions >= 1 and the snapshot's filename sorts after
\* the filenames already stored; with max_revisions = 0 no revision is
\* stored.
C29_ResetKeepsPreviousWhenCaching ==
    [][/\ ResetWritesDefault
       /\ (/\ op.name = "reset" /\ pc = "save_snapshot" /\ file # NoFile
           /\ max_revisions >= 1
           /\ SortsLast(fs, sv'.ret.v.name))
             => \E f \in FilesIn(fs', ConfigPath.stem) :
                   f.name = sv'.ret.v.name /\ f.content = file
       /\ (op.name = "reset" /\ pc = "save_snapshot" /\ max_revisions = 0)
             => fs' = fs
       /\ ResetCompletes => fs' = fs]_vars

\* A reset called after the clock advanced has completed: the file holds the
\* default of that time and the content it replaced is a revision.
C29_Witness ==
    /\ op.name = "reset"
    /\ op.done
    /\ now = 1
    /\ file = ModelDumpJson(ExpectedDefault(1))
    /\ cache = ExpectedDefault(1)
    /\ \E f \in FilesIn(fs, ConfigPath.stem) :
          f.content = ModelDumpJson(ExpectedDefault(0))


----------------------------------------------------------------------------
\* Properties of get on keys outside the schema, checked under Spec.

\* C30: for a non-dotted key that is not a field of the config schema,
\* get(key, default) returns default; a value is returned only for keys that
\* are schema fields of the loaded config.
C30_FlatUnknownKeyGetsDefault ==
    [][(/\ op'.name = "get"
        /\ op'.raised = ""
        /\ ~HasDot(op'.key)
        /\ op'.key[1] \notin Fields)
          => op'.ret = op'.value]_vars

\* The same for the flat keys that name no attribute of the model object.
FlatNonAttributeKeyGetsDefault ==
    [][(/\ op'.name = "get"
        /\ op'.raised = ""
        /\ ~HasDot(op'.key)
        /\ op'.key[1] \notin Fields \cup ModelAttrs)
          => op'.ret = op'.value]_vars

----------------------------------------------------------------------------
\* ConfigManager._set_dot_notation_key followed by _get_dot_notation_key, as
\* functions of their arguments: the specification SpecSetDot draws a dict, a
\* dotted key and a value, sets the key and then looks it up.

DottedKeys == { k \in DotKeys : HasDot(k) }
SetValues == { Str("3"), Int_(3), EmptyDict, Dict([e |-> Str("s")]), None }

InitSetDot ==
    /\ file = NoFile
    /\ cache = None
    /\ lastGood = None
    /\ pc = "idle"
    /\ pending = None
    /\ sv = NoSave
    /\ max_revisions = 0
    /\ fs = EmptyFs
    /\ now = 0
    /\ op = Op("init", <<>>, None, "", None, TRUE)
    /\ arg \in [config_dict : DotDicts, key : DottedKeys, value : SetValues]
    /\ res = [at |-> "start", config_dict |-> arg.config_dict, value |-> None]

\* self._set_dot_notation_key(config_dict, key, value): the dict is modified
\* by reference.
CallSetDotNotationKey ==
    /\ res.at = "start"
    /\ res' = [res EXCEPT !.at = "set",
                          !.config_dict =
                              SetDotNotationKey(res.config_dict, arg.key,
                                                arg.value)]
    /\ UNCHANGED <<file, cache, lastGood, pc, pending, sv, max_revisions, fs,
                   now, op, arg>>

\* self._get_dot_notation_key(config_dict, key) on the modified dict.
CallGetAfterSet ==
    /\ res.at = "set"
    /\ res' = [res EXCEPT !.at = "got",
                          !.value =
                              GetDotNotationKey(res.config_dict, arg.key, None)]
    /\ UNCHANGED <<file, cache, lastGood, pc, pending, sv, max_revisions, fs,
                   now, op, arg>>

NextSetDot == CallSetDotNotationKey \/ CallGetAfterSet

SpecSetDot == InitSetDot /\ [][NextSetDot]_vars

\* p is on the path of k: one is a prefix of the other.
OnPath(p, k) ==
    LET n == IF Len(p) < Len(k) THEN Len(p) ELSE Len(k)
    IN \A i \in 1..n : p[i] = k[i]

\* C31: for every dict, dotted key and value, setting the key and then
\* looking it up returns the value; after the set every proper prefix of the
\* key addresses a mapping, also where the dict had none or had a scalar, and
\* every entry of the dict that is not on the path of the key is an entry of
\* the modified dict with the same value, which has no other entries off the
\* path.
C31_SetThenGetRoundTrips ==
    /\ res.at = "got" => res.value = arg.value
    /\ res.at \in {"set", "got"} =>
          /\ \A i \in 1..(Len(arg.key) - 1) :
                /\ SubSeq(arg.key, 1, i) \in PathsOf(res.config_dict)
                /\ IsDict(ValueAt(res.config_dict, SubSeq(arg.key, 1, i)))
          /\ arg.key \in PathsOf(res.config_dict)
          /\ ValueAt(res.config_dict, arg.key) = arg.value
          /\ \A p \in PathsOf(arg.config_dict) :
                ~OnPath(p, arg.key)
                   => /\ p \in PathsOf(res.config_dict)
                      /\ ValueAt(res.config_dict, p)
                            = ValueAt(arg.config_dict, p)
          /\ \A p \in PathsOf(res.config_dict) :
                ~OnPath(p, arg.key) => p \in PathsOf(arg.config_dict)

\* "b.d.e" has been set to 3 in a dict whose "b.d" was the string "foo" and
\* whose "b.z" is a mapping: the lookup returned 3, "b.d" is now a mapping and
\* "b.z" is as it was.
C31_Witness ==
    /\ res.at = "got"
    /\ arg.key = <<"b", "d", "e">>
    /\ arg.value = Int_(3)
    /\ "b" \in DOMAIN arg.config_dict.v
    /\ IsDict(arg.config_dict.v["b"])
    /\ "d" \in DOMAIN arg.config_dict.v["b"].v
    /\ arg.config_dict.v["b"].v["d"] = Str("foo")
    /\ res.value = Int_(3)
    /\ IsDict(res.config_dict.v["b"].v["d"])
    /\ res.config_dict.v["b"].v["z"] = arg.config_dict.v["b"].v["z"]

----------------------------------------------------------------------------
\* models/mappings.py: MappingGroup and its validator, as a function of the
\* fields of the group.  The specification SpecGroup draws a group and
\* constructs it.

MaxMappings == 2      \* mappings in one group

RelationTypes == {"primary", "alias", "equivalent"}
\* MappingType.stratigraphy and a second member of the enumeration
MappingTypes == {"stratigraphy", "wells"}
DataSystems == {"rms", "smda", "fmu"}
NoUuid == "None"
Uuids == {"u1", "u2"}
SourceIds == {"Viking Gp", "Viking gp"}

\* _make_mapping of the tests: a mapping from rms to smda for "Viking GP."
BaseMapping(source_id, relation_type) ==
    [source_id |-> source_id, source_uuid |-> NoUuid,
     relation_type |-> relation_type,
     target_id |-> "Viking GP.", target_uuid |-> "u1",
     mapping_type |-> "stratigraphy",
     target_system |-> "smda", source_system |-> "rms"]

\* The mappings a group is built from: the base mappings and those that
\* differ from one in a single field.
GroupMappings ==
    UNION { LET m == BaseMapping(s, r)
            IN { m,
                 [m EXCEPT !.source_uuid = "u1"],
                 [m EXCEPT !.target_id = "Westeros"],
                 [m EXCEPT !.target_uuid = NoUuid],
                 [m EXCEPT !.target_uuid = "u2"],
                 [m EXCEPT !.mapping_type = "wells"],
                 [m EXCEPT !.target_system = "fmu"],
                 [m EXCEPT !.source_system = "fmu"] }
            : s \in SourceIds, r \in RelationTypes }

MappingLists == UNION { [1..n -> GroupMappings] : n \in 0..MaxMappings }

Groups ==
    [target_id : {"Viking GP."}, target_uuid : {NoUuid, "u1"},
     mapping_type : {"stratigraphy"}, target_system : {"smda"},
     source_system : {"rms"}, mappings : MappingLists]

\* The outcome of a construction: accepted, or the ValueError of the
\* validator, which pydantic raises as a ValidationError.
Accepted == [raised |-> "", message |-> ""]
Rejected(message) == [raised |-> "ValidationError", message |-> message]

\* MappingGroup._count_mappings_by_relation_type
CountMappingsByRelationType(group, relation_type) ==
    Cardinality({ i \in 1..Len(group.mappings) :
                     group.mappings[i].relation_type = relation_type })

\* The loop of validate_group over the mappings, from the i-th on.
RECURSIVE ValidateMappings(_, _, _)
ValidateMappings(group, i, seen) ==
    IF i > Len(group.mappings) THEN Accepted
    ELSE
      LET mapping == group.mappings[i]
          mapping_key == <<mapping.source_id, mapping.source_uuid,
                           mapping.relation_type>>
      IN  IF mapping_key \in seen
          THEN Rejected("Duplicate mapping in group")
          ELSE IF mapping.target_id # group.target_id
          THEN Rejected("must share target_id")
          ELSE IF mapping.mapping_type # group.mapping_type
          THEN Rejected("must share mapping_type")
          ELSE IF mapping.target_system # group.target_system
          THEN Rejected("must share target_system")
          ELSE IF mapping.source_system # group.source_system
          THEN Rejected("must share source_system")
          ELSE IF /\ mapping.target_uuid # NoUuid
                  /\ group.target_uuid # NoUuid
                  /\ mapping.target_uuid # group.target_uuid
          THEN Rejected("must share target_uuid")
          ELSE ValidateMappings(group, i + 1, seen \cup {mapping_key})

\* A faulty variant: aliases are accepted without a primary mapping.
ValidateGroupNoAliasRule(group) ==
    IF group.mappings = <<>> THEN Accepted
    ELSE IF CountMappingsByRelationType(group, "primary") > 1
    THEN Rejected("at most one primary mapping")
    ELSE IF CountMappingsByRelationType(group, "equivalent") > 1
    THEN Rejected("at most one equivalent mapping")
    ELSE ValidateMappings(group, 1, {})

\* MappingGroup.validate_group
ValidateGroup(group) ==
    LET primary_mappings_count == CountMappingsByRelationType(group, "primary")
        has_alias_mapping == CountMappingsByRelationType(group, "alias") > 0
    IN  IF group.mappings = <<>> THEN Accepted
        ELSE IF primary_mappings_count > 1
        THEN Rejected("at most one primary mapping")
        ELSE IF CountMappingsByRelationType(group, "equivalent") > 1
        THEN Rejected("at most one equivalent mapping")
        ELSE IF has_alias_mapping /\ primary_mappings_count = 0
        THEN Rejected("alias relations but no primary relation")
        ELSE ValidateMappings(group, 1, {})

InitGroup ==
    /\ file = NoFile
    /\ cache = None
    /\ lastGood = None
    /\ pc = "idle"
    /\ pending = None
    /\ sv = NoSave
    /\ max_revisions = 0
    /\ fs = EmptyFs
    /\ now = 0
    /\ op = Op("init", <<>>, None, "", None, TRUE)
    /\ arg \in Groups
    /\ res = [called |-> FALSE, raised |-> "", message |-> ""]

\* MappingGroup(target_id=..., ..., mappings=[...])
ConstructMappingGroup ==
    /\ ~res.called
    /\ LET out == ValidateGroup(arg)
       IN res' = [called |-> TRUE, raised |-> out.raised,
                  message |-> out.message]
    /\ UNCHANGED <<file, cache, lastGood, pc, pending, sv, max_revisions, fs,
                   now, op, arg>>

NextGroup == ConstructMappingGroup

SpecGroup == InitGroup /\ [][NextGroup]_vars

\* The conditions on a group with mappings, as the claim lists them.
GroupRulesHold(group) ==
    LET ms == group.mappings
        Of(r) == { i \in DOMAIN ms : ms[i].relation_type = r }
    IN  /\ \A i, j \in Of("primary") : i = j
        /\ \A i, j \in Of("equivalent") : i = j
        /\ Of("alias") # {} => Of("primary") # {}
        /\ \A i, j \in DOMAIN ms :
              (/\ ms[i].source_id = ms[j].source_id
               /\ ms[i].source_uuid = ms[j].source_uuid
               /\ ms[i].relation_type = ms[j].relation_type) => i = j
        /\ \A i \in DOMAIN ms :
              /\ ms[i].target_id = group.target_id
              /\ ms[i].mapping_type = group.mapping_type
              /\ ms[i].target_system = group.target_system
              /\ ms[i].source_system = group.source_system
              /\ (ms[i].target_uuid # NoUuid /\ group.target_uuid # NoUuid)
                    => ms[i].target_uuid = group.target_uuid

----------------------------------------------------------------------------
\* Two ConfigManager instances on one settings directory: fmu_dir.config and
\* a second ConfigManager(fmu_dir), as in test_config_resource_manager.  Each
\* has its own _cache; config.json and the cache tree are shared.  The second
\* manager's cache is held in res.

SetInputs == { [key |-> <<"version">>, value |-> Str("200.0.0")],
               [key |-> <<"created_by">>, value |-> Str("bob")],
               [key |-> <<"created_by">>, value |-> Int_(0)] }

\* set(key, value) on the second manager, from its load to the return of its
\* save.
OtherManagerSet(key, value) ==
    /\ pc = "idle"
    /\ LET ld == LoadResult(file, res, FALSE)
           updated == IF ld.raised = ""
                      THEN ModelValidate(SetMutate(ld.value, key, value))
                      ELSE None
       IN IF ld.raised # "" \/ updated = ValidationError
          THEN /\ res' = ld.cache
               /\ op' = Op("other_set", key, value,
                           Reraised(IF ld.raised # "" THEN ld.raised
                                    ELSE "ValidationError"),
                           None, TRUE)
               /\ UNCHANGED <<file, fs>>
          ELSE /\ \E token \in Tokens :
                     fs' = StoreRevision(fs, max_revisions, ConfigPath, file,
                                         now, token).fs
               /\ file' = ModelDumpJson(updated)
               /\ res' = updated
               /\ op' = Op("other_set", key, value, "", None, TRUE)
    /\ sv' = NoSave
    /\ UNCHANGED <<cache, lastGood, pc, pending, max_revisions, now, arg>>

NextTwo ==
    \/ Tick
    \/ \E force \in BOOLEAN : Load(force)
    \/ \E s \in SetInputs : Set(s.key, s.value)
    \/ SaveSnapshot
    \/ SaveWrite
    \/ SaveCache
    \/ \E s \in SetInputs : OtherManagerSet(s.key, s.value)

SpecTwo == Init /\ [][NextTwo]_vars

\* The fields of config.json other than the one a set addressed have, when
\* the set has written the file, the values they had on disk when it was
\* called.
OtherFieldsAsOnDisk ==
    (/\ op.name = "set"
     /\ op.raised = ""
     /\ pc = "save_cache")
       => \A f \in Fields \ {op.key[1]} :
             JsonLoads(file).v[f] = JsonLoads(sv.preFile).v[f]

\* C33: a successful set(key, value) changes only the addressed key: every
\* other field of config.json keeps the value it had on disk immediately
\* before the call, also when the file was last written through another
\* ConfigManager instance on the same directory after this manager had cached
\* its value.
C33_SetChangesOnlyAddressedKey == OtherFieldsAsOnDisk

----------------------------------------------------------------------------
\* Properties of update with no items, checked under Spec.

\* C34: update called with an empty updates mapping on an existing valid
\* config completes without raising, and the Config it saves and returns is
\* equal to the currently loaded one.
C34_EmptyUpdateReturnsLoaded ==
    [][(/\ op'.name = "update"
        /\ op'.value.v = <<>>
        /\ pc = "idle"
        /\ LoadResult(file, cache, FALSE).raised = "")
          => /\ op'.raised = ""
             /\ pending' = LoadResult(file, cache, FALSE).value]_vars

----------------------------------------------------------------------------
\* Properties of the user-log manager's construction, checked under SpecLog.

\* C35: the user-log manager destroys no log content: whatever a log file of
\* the prior session held when the manager is constructed is on disk after
\* the construction, in the live file or in a revision, for every
\* max_revisions, 0 included.
C35_UserlogKeepsLogContent ==
    [][(op'.name = "UserlogManager" /\ pc = "idle")
          => \A n \in LogFileNames :
                fs.logs[n] # NoFile
                   => \/ fs'.logs[n] = fs.logs[n]
                      \/ \E f \in fs'.snaps : f.content = fs.logs[n]]_vars

----------------------------------------------------------------------------
\* Properties of a failed init_fmu_directory, checked under SpecInit.

\* C36: init_fmu_directory is all-or-nothing: when it raises after the
\* existence checks have passed, for example because the config data fails
\* validation, the base path holds no .fmu entry afterwards, so that a later
\* init_fmu_directory on the same base path can succeed.
C36_InitAllOrNothing ==
    [][(/\ op'.name = "init_fmu_directory"
        /\ res.base /\ res.fmu = "absent"
        /\ op'.raised # "")
          => /\ res'.fmu = "absent"
             /\ CreateFmuDirectory(res').raised = ""]_vars

----------------------------------------------------------------------------
\* store_revision for resources whose relative paths differ: config.json,
\* README and logs/config.json, which has the stem of config.json.  Each
\* resource has a content of its own.

LogsConfigPath == [stem |-> "config", suffix |-> ".json", parent |-> "logs"]
StemPaths == {ConfigPath, ReadmePath, LogsConfigPath}

ContentOf(path) ==
    IF path = ConfigPath THEN [t |-> "text", v |-> "config.json"]
    ELSE IF path = ReadmePath THEN [t |-> "text", v |-> "README"]
    ELSE [t |-> "text", v |-> "logs/config.json"]

InitStem ==
    /\ file = NoFile
    /\ cache = None
    /\ lastGood = None
    /\ pc = "idle"
    /\ pending = None
    /\ sv = NoSave
    /\ max_revisions \in {ClampRevisions(n) : n \in -1..MaxRevs}
    /\ fs = EmptyFs
    /\ now = 0
    /\ op = Op("init", <<>>, None, "", None, TRUE)
    /\ arg = None
    /\ res = None

NextStem ==
    \/ Tick
    \/ \E path \in StemPaths : StoreRevisionCall(path, ContentOf(path))

SpecStem == InitStem /\ [][NextStem]_vars

\* A store_revision call for A has left list_revisions(B) as it was and
\* without a snapshot of A's content.
LeavesAlone(A, B) ==
    /\ ListRevisions(fs', B) = ListRevisions(fs, B)
    /\ \A i \in DOMAIN ListRevisions(fs', B) :
          ListRevisions(fs', B)[i].content # ContentOf(A)

\* C37 as stated: a store_revision call for one resource never changes the
\* revisions of another: for any two resources with different relative paths
\* A and B, store_revision(A, ...) leaves list_revisions(B) unchanged, and
\* list_revisions(B) holds no snapshot of A's content.
C37_OtherPathsRevisionsUnchanged ==
    [][op'.name = "store_revision"
          => \A B \in StemPaths :
                B # op'.value.v.path => LeavesAlone(op'.value.v.path, B)]_vars

\* C37, amended: the same for any two resources whose paths have different
\* filename stems.
C37_OtherStemsRevisionsUnchanged ==
    [][op'.name = "store_revision"
          => \A B \in StemPaths :
                B.stem # op'.value.v.path.stem
                   => LeavesAlone(op'.value.v.path, B)]_vars

\* A revision of config.json has been stored while README had a revision.
C37_Witness ==
    /\ op.name = "store_revision"
    /\ op.value.v.path = ConfigPath
    /\ op.ret # None
    /\ ListRevisions(fs, ReadmePath) # <<>>
    /\ \E f \in FilesIn(fs, "config") : f.content = ContentOf(ConfigPath)

----------------------------------------------------------------------------
\* Properties of the path store_revision returns, checked under SpecCache.

\* C38: when max_revisions >= 1, the path store_revision returns exists as a
\* file holding the given content when the call returns: the trim step of a
\* call never deletes the snapshot that the call has just written.
C38_ReturnedSnapshotExists ==
    [][(op'.name = "store_revision" /\ max_revisions >= 1)
          => /\ op'.ret # None
             /\ \E f \in fs'.snaps :
                   /\ f.stem = op'.ret.v.stem
                   /\ f.name = op'.ret.v.name
                   /\ f.content = op'.value.v.content]_vars

----------------------------------------------------------------------------
\* Properties of CACHEDIR.TAG, checked under SpecCache.  The tag is the file
\* fs.tag at the cache root; the snapshot files are in the directories
\* fs.dirs below the root, one per stem.

\* C39: in every state reached through store_revision calls, if a revision
\* file exists under the cache root then CACHEDIR.TAG exists at the cache root
\* with the fixed signature content; list_revisions returns only snapshot
\* files of the resource's own directory below the root, never the tag; and
\* no store_revision call, with the trimming it does, deletes or changes the
\* tag.
C39_TagAccompaniesRevisions ==
    /\ [](fs.snaps # {} => (fs.root /\ fs.tag = CachedirTagContent))
    /\ [](\A path \in CachePaths :
            \A i \in DOMAIN ListRevisions(fs, path) :
               LET f == ListRevisions(fs, path)[i]
               IN /\ f \in fs.snaps
                  /\ f.stem = path.stem /\ f.stem \in fs.dirs
                  /\ f.content # CachedirTagContent)
    /\ [][(op'.name = "store_revision" /\ fs.tag # NoFile)
             => fs'.tag = fs.tag]_vars

\* A store_revision call at the retention limit has trimmed a revision of
\* config.json; revisions exist and the tag is in place.
C39_Witness ==
    /\ op.name = "store_revision"
    /\ op.ret # None
    /\ op.value.v.path = ConfigPath
    /\ op.value.v.before = max_revisions
    /\ Len(ListRevisions(fs, ConfigPath)) = max_revisions
    /\ fs.tag = CachedirTagContent

=============================================================================
